---- MODULE Spec2Model ----
(***************************************************************************)
(* Plain-English-to-test-code pipeline: value extraction, step resolution, *)
(* Playwright rendering and strict-mode validation.                        *)
(*                                                                         *)
(* Strings are TLA+ strings (TLC gives them Len, \o and SubSeq), so every  *)
(* toLowerCase / includes / match of the source is computed character by   *)
(* character.  Regular expressions are kept as their source text and run   *)
(* by a backtracking matcher with JavaScript's leftmost, ordered-choice,   *)
(* greedy semantics.  The alphabet is ASCII.                               *)
(***************************************************************************)
EXTENDS Integers, Sequences, FiniteSets, TLC

(***************************************************************************)
(* String primitives: the methods of String the source uses               *)
(***************************************************************************)
At(s, i) == IF i >= 1 /\ i <= Len(s) THEN SubSeq(s, i, i) ELSE ""

\* s.substring(b - 1, e - 1): the characters at positions b .. e-1 (1-based)
Sub(s, b, e) ==
  LET lo == IF b < 1 THEN 1 ELSE b
      hi == IF e > Len(s) + 1 THEN Len(s) + 1 ELSE e
  IN IF lo >= hi THEN "" ELSE SubSeq(s, lo, hi - 1)

CharsOf(s) == { SubSeq(s, k, k) : k \in 1..Len(s) }

Uppers == "ABCDEFGHIJKLMNOPQRSTUVWXYZ"

Lowers == "abcdefghijklmnopqrstuvwxyz"

Digits == "0123456789"

UpperToLower ==
  [c \in CharsOf(Uppers) |->
     At(Lowers, CHOOSE k \in 1..Len(Uppers) : At(Uppers, k) = c)]

LowerToUpper ==
  [c \in CharsOf(Lowers) |->
     At(Uppers, CHOOSE k \in 1..Len(Lowers) : At(Lowers, k) = c)]

LowerChar(c) == IF c \in DOMAIN UpperToLower THEN UpperToLower[c] ELSE c

UpperChar(c) == IF c \in DOMAIN LowerToUpper THEN LowerToUpper[c] ELSE c

RECURSIVE ToLowerCase(_)
ToLowerCase(s) ==
  IF Len(s) = 0 THEN ""
  ELSE IF Len(s) = 1 THEN LowerChar(s)
  ELSE LET h == Len(s) \div 2
       IN ToLowerCase(SubSeq(s, 1, h)) \o ToLowerCase(SubSeq(s, h + 1, Len(s)))

RECURSIVE ToUpperCase(_)
ToUpperCase(s) ==
  IF Len(s) = 0 THEN ""
  ELSE IF Len(s) = 1 THEN UpperChar(s)
  ELSE LET h == Len(s) \div 2
       IN ToUpperCase(SubSeq(s, 1, h)) \o ToUpperCase(SubSeq(s, h + 1, Len(s)))

Includes(hay, needle) ==
  \E i \in 0..(Len(hay) - Len(needle)) :
     Sub(hay, i + 1, i + 1 + Len(needle)) = needle

StartsWith(s, p) == Len(p) <= Len(s) /\ Sub(s, 1, Len(p) + 1) = p

WhiteSpace == {" ", "\t", "\n", "\r", "\f"}

Trim(s) ==
  LET keep == { k \in 1..Len(s) : At(s, k) \notin WhiteSpace }
  IN IF keep = {} THEN ""
     ELSE LET b == CHOOSE k \in keep : \A j \in keep : k <= j
              e == CHOOSE k \in keep : \A j \in keep : k >= j
          IN SubSeq(s, b, e)

RECURSIVE Join(_, _)
Join(xs, sep) ==
  IF Len(xs) = 0 THEN ""
  ELSE IF Len(xs) = 1 THEN xs[1]
  ELSE xs[1] \o sep \o Join(Tail(xs), sep)

(***************************************************************************)
(* RegExp.  A pattern is written with the constructors below, one per      *)
(* construct of the regular-expression syntax:                             *)
(*   L("abc")        the characters abc                                    *)
(*   Cls(cs), NotCls(cs) a class [..] / [^..], cs the set of its members   *)
(*   Maybe(c) Star(c) Plus(c) AtLeast(c, n)                                *)
(*                   c? c* c+ c{n,} for a class (or character) c           *)
(*   Cat(<<..>>)     juxtaposition          Alt(<<..>>)   a|b|c            *)
(*   Opt(x)          (?:x)?                 Cap(n, x)     group number n   *)
(*   End             $                      NotAhead(x)   (?!x)            *)
(* Matching returns the successes from a position in backtracking order,   *)
(* so the first one is the match JavaScript reports.                       *)
(***************************************************************************)
Unbounded == 1000000

\* lower is the text as the i flag compares it
L(s) == [k |-> "lit", s |-> s, lower |-> ToLowerCase(s)]

Cls(cs) == [k |-> "set", neg |-> FALSE, cs |-> cs, min |-> 1, max |-> 1]

NotCls(cs) == [k |-> "set", neg |-> TRUE, cs |-> cs, min |-> 1, max |-> 1]

Maybe(c) == [c EXCEPT !.min = 0, !.max = 1]

Star(c) == [c EXCEPT !.min = 0, !.max = Unbounded]

Plus(c) == [c EXCEPT !.min = 1, !.max = Unbounded]

AtLeast(c, n) == [c EXCEPT !.min = n, !.max = Unbounded]

Cat(xs) == [k |-> "seq", xs |-> xs]

Alt(xs) == [k |-> "alt", xs |-> xs]

Opt(x) == [k |-> "opt", x |-> x]

Cap(n, x) == [k |-> "cap", n |-> n, x |-> x]

End == [k |-> "end"]

NotAhead(x) == [k |-> "nla", x |-> x]

\* \s  \w  .  and the quote class ['"'] of the source
Letters == CharsOf(Uppers) \cup CharsOf(Lowers)

AlphaNum == Letters \cup CharsOf(Digits)

WordChars == AlphaNum \cup {"_"}

Sp == Cls(WhiteSpace)

Sp1 == Plus(Sp)

Sp0 == Star(Sp)

Quote == Cls({"'", "\""})

NotQuote == NotCls({"'", "\""})

AnyChar == NotCls({"\n", "\r"})

\* The characters a match of x can begin with; any is TRUE when that is not
\* known from the head of x (x can match the empty string, or begins with a
\* negated class).  With the i flag the characters are those of the lowered subject.
RECURSIVE FirstChars(_, _)
RECURSIVE FirstOfSeq(_, _, _)
RECURSIVE FirstOfAlt(_, _, _)
FirstOfSeq(xs, k, ci) ==
  IF k > Len(xs) THEN [any |-> TRUE, cs |-> {}]
  ELSE LET f == FirstChars(xs[k], ci)
       IN IF ~f.any THEN f
          ELSE IF xs[k].k \in {"opt", "set"} /\ (xs[k].k = "opt" \/ ~xs[k].neg)
            THEN LET g == FirstOfSeq(xs, k + 1, ci)
                     h == FirstChars(IF xs[k].k = "opt" THEN xs[k].x
                                     ELSE [xs[k] EXCEPT !.min = 1], ci)
                 IN [any |-> g.any \/ h.any, cs |-> g.cs \cup h.cs]
          ELSE f

FirstOfAlt(xs, k, ci) ==
  IF k > Len(xs) THEN [any |-> FALSE, cs |-> {}]
  ELSE LET f == FirstChars(xs[k], ci)
           g == FirstOfAlt(xs, k + 1, ci)
       IN [any |-> f.any \/ g.any, cs |-> f.cs \cup g.cs]

FirstChars(x, ci) ==
  CASE x.k = "lit" ->
         IF x.s = "" THEN [any |-> TRUE, cs |-> {}]
         ELSE [any |-> FALSE, cs |-> {At(IF ci THEN x.lower ELSE x.s, 1)}]
    [] x.k = "set" ->
         IF x.neg \/ x.min = 0 THEN [any |-> TRUE, cs |-> {}]
         ELSE [any |-> FALSE,
               cs |-> IF ci THEN x.cs \cup { LowerChar(c) : c \in x.cs } ELSE x.cs]
    [] x.k = "seq" -> FirstOfSeq(x.xs, 1, ci)
    [] x.k = "alt" -> FirstOfAlt(x.xs, 1, ci)
    [] x.k = "cap" -> FirstChars(x.x, ci)
    [] OTHER -> [any |-> TRUE, cs |-> {}]

\* new RegExp(source, flags); ci is the i flag
RegExp(source, node, ci) ==
  [source |-> source, node |-> node, ci |-> ci, first |-> FirstChars(node, ci)]

MaxGroups == 3

NoCaps == [n \in 1..MaxGroups |-> <<0, 0>>]

InSet(a, c, ci) ==
  c # "" /\ ((c \in a.cs \/ (ci /\ UpperChar(c) \in a.cs)) # a.neg)

\* how many characters from position i on belong to the class a, at most max
RunLength(a, t, i, ci, max) ==
  IF ~InSet(a, At(t, i), ci) THEN 0 ELSE
  LET Least(bad) == IF bad = {} THEN Len(t) + 1 ELSE CHOOSE k \in bad : \A j \in bad : k <= j
      AtMost(run) == IF run > max THEN max ELSE run
  IN AtMost(Least({ k \in i..Len(t) : ~InSet(a, At(t, k), ci) }) - i)

RECURSIVE MatchNode(_, _, _, _, _)
RECURSIVE MatchSeq(_, _, _, _, _, _, _)
RECURSIVE MatchRest(_, _, _, _, _, _, _, _)
RECURSIVE MatchAlt(_, _, _, _, _, _, _)

\* the items xs[lo..hi] in order, from position i
MatchSeq(xs, lo, hi, t, i, caps, ci) ==
  IF lo > hi THEN << [e |-> i, caps |-> caps] >>
  ELSE IF lo = hi THEN MatchNode(xs[lo], t, i, caps, ci)
  ELSE LET mid == (lo + hi) \div 2
           left == MatchSeq(xs, lo, mid, t, i, caps, ci)
       IN MatchRest(left, 1, Len(left), xs, mid + 1, hi, t, ci)

\* the items xs[lo..hi] after each of the successes rs[a..b], in their order
MatchRest(rs, a, b, xs, lo, hi, t, ci) ==
  IF a > b THEN <<>>
  ELSE IF a = b THEN MatchSeq(xs, lo, hi, t, rs[a].e, rs[a].caps, ci)
  ELSE LET mid == (a + b) \div 2
       IN MatchRest(rs, a, mid, xs, lo, hi, t, ci)
          \o MatchRest(rs, mid + 1, b, xs, lo, hi, t, ci)

\* the alternatives xs[lo..hi], earlier ones first
MatchAlt(xs, lo, hi, t, i, caps, ci) ==
  IF lo > hi THEN <<>>
  ELSE IF lo = hi THEN MatchNode(xs[lo], t, i, caps, ci)
  ELSE LET mid == (lo + hi) \div 2
       IN MatchAlt(xs, lo, mid, t, i, caps, ci)
          \o MatchAlt(xs, mid + 1, hi, t, i, caps, ci)

MatchNode(x, t, i, caps, ci) ==
  CASE x.k = "lit" ->
         IF Sub(t, i, i + Len(x.s)) = (IF ci THEN x.lower ELSE x.s)
           THEN << [e |-> i + Len(x.s), caps |-> caps] >>
           ELSE <<>>
    [] x.k = "set" ->
         LET Longest(run) ==
               IF run < x.min THEN <<>>
               ELSE [j \in 1..(run - x.min + 1) |-> [e |-> i + run - j + 1, caps |-> caps]]
         IN Longest(RunLength(x, t, i, ci, x.max))
    [] x.k = "seq" -> MatchSeq(x.xs, 1, Len(x.xs), t, i, caps, ci)
    [] x.k = "alt" -> MatchAlt(x.xs, 1, Len(x.xs), t, i, caps, ci)
    [] x.k = "opt" -> MatchNode(x.x, t, i, caps, ci) \o << [e |-> i, caps |-> caps] >>
    [] x.k = "cap" ->
         LET Captured(rs) ==
               [j \in 1..Len(rs) |->
                  [e |-> rs[j].e, caps |-> [rs[j].caps EXCEPT ![x.n] = <<i, rs[j].e>>]]]
         IN Captured(MatchNode(x.x, t, i, caps, ci))
    [] x.k = "end" ->
         IF i = Len(t) + 1 THEN << [e |-> i, caps |-> caps] >> ELSE <<>>
    [] x.k = "nla" ->
         IF MatchNode(x.x, t, i, caps, ci) = <<>>
           THEN << [e |-> i, caps |-> caps] >>
           ELSE <<>>

NoMatch == [ok |-> FALSE]

\* the match at the first of the positions lo..hi of t where re matches
RECURSIVE FirstStart(_, _, _, _)
FirstStart(re, t, lo, hi) ==
  IF lo > hi THEN NoMatch
  ELSE IF lo = hi
    THEN IF re.first.any \/ At(t, lo) \in re.first.cs
           THEN LET First(rs) ==
                      IF rs = <<>> THEN NoMatch
                      ELSE [ok |-> TRUE, b |-> lo, e |-> rs[1].e, caps |-> rs[1].caps]
                IN First(MatchNode(re.node, t, lo, NoCaps, re.ci))
           ELSE NoMatch
  ELSE LET mid == (lo + hi) \div 2
           left == FirstStart(re, t, lo, mid)
       IN IF left.ok THEN left ELSE FirstStart(re, t, mid + 1, hi)

\* re.exec(s) with lastIndex = from - 1: the leftmost match at or after from
Exec(re, s, from) ==
  LET t == IF re.ci THEN ToLowerCase(s) ELSE s
  IN FirstStart(re, t, from, Len(t) + 1)

\* s.match(re) for a pattern without the g flag
StrMatch(s, re) == Exec(re, s, 1)

\* match[n]: the text of group n; "" when the group took no part (undefined),
\* which every use in the source treats like the empty string
Group(s, m, n) ==
  IF n = 0 THEN Sub(s, m.b, m.e) ELSE Sub(s, m.caps[n][1], m.caps[n][2])

(***************************************************************************)
(* src/core/dsl-generator.ts: plain English to TestCase                    *)
(* (the second set of declarations of the file, lines 315-788, which is    *)
(* the one in force: a later function declaration replaces an earlier one) *)
(***************************************************************************)
\* sub-patterns that recur in the tables below
ValueChar == Cls(AlphaNum \cup CharsOf("_@.-"))

GoToVerb == Alt(<<L("go to"), L("navigate to"), L("visit"), L("open")>>)

TryTo == Opt(Cat(<<L("try"), Sp1, L("to"), Sp1>>))

LoginVerb == Alt(<<L("login"), L("signin"), Cat(<<L("log"), Sp1, L("in")>>)>>)

EnterVerb == Alt(<<L("enter"), L("fill"), L("type"), L("input")>>)

WithOrAs == Opt(Alt(<<Cat(<<L("with"), Sp0>>), Cat(<<L("as"), Sp0>>)>>))

ClickVerb == Alt(<<L("click"), L("press"), L("tap"), L("hit")>>)

OnThe == Cat(<<Opt(Cat(<<L("on"), Sp1>>)), Opt(Cat(<<L("the"), Sp1>>))>>)

\* the first pattern among res[lo..hi] that matches s (and, with needGroup1,
\* whose group 1 is non-empty): its index k and the match; k = 0 when none does
RECURSIVE FirstHit(_, _, _, _, _)
FirstHit(s, res, lo, hi, needGroup1) ==
  IF lo > hi THEN [k |-> 0]
  ELSE IF lo = hi
    THEN LET Hit(m) ==
               IF m.ok /\ (~needGroup1 \/ Group(s, m, 1) # "")
                 THEN [k |-> lo, match |-> m] ELSE [k |-> 0]
         IN Hit(StrMatch(s, res[lo]))
  ELSE LET mid == (lo + hi) \div 2
           l == FirstHit(s, res, lo, mid, needGroup1)
       IN IF l.k # 0 THEN l ELSE FirstHit(s, res, mid + 1, hi, needGroup1)

\* an object without properties; Has(o, key) is the truthiness of o[key]
EmptyObject == [k \in {} |-> ""]

Has(o, key) == key \in DOMAIN o /\ o[key] # ""

capitalizeFirst(str) == UpperChar(At(str, 1)) \o Sub(str, 2, Len(str) + 1)

\* .replace(/[^a-z0-9\s]/g, '')
RECURSIVE StripNonAlnum(_)
StripNonAlnum(s) ==
  IF Len(s) = 0 THEN ""
  ELSE IF Len(s) = 1
    THEN IF s \in CharsOf(Lowers) \cup CharsOf(Digits) \cup WhiteSpace THEN s ELSE ""
  ELSE LET h == Len(s) \div 2
       IN StripNonAlnum(SubSeq(s, 1, h)) \o StripNonAlnum(SubSeq(s, h + 1, Len(s)))

\* .replace(/\s+/g, '_') on the characters lo..hi of s
RECURSIVE UnderscoreSpaces(_, _, _)
UnderscoreSpaces(s, lo, hi) ==
  IF lo > hi THEN ""
  ELSE IF lo = hi
    THEN IF At(s, lo) \notin WhiteSpace THEN At(s, lo)
         ELSE IF At(s, lo - 1) \in WhiteSpace THEN "" ELSE "_"
  ELSE LET mid == (lo + hi) \div 2
       IN UnderscoreSpaces(s, lo, mid) \o UnderscoreSpaces(s, mid + 1, hi)

testName(description) ==
  LET Snake(t) == UnderscoreSpaces(t, 1, Len(t))
  IN Snake(Trim(StripNonAlnum(ToLowerCase(description))))

pathPatterns ==
  <<
    RegExp("(?:go to|navigate to|visit|open)\\s+['\"](https?:\\/\\/[^'\"]+)['\"]",
      Cat(<<GoToVerb, Sp1, Quote, Cap(1, Cat(<<L("http"), Maybe(Cls({"s"})), L("://"),
      Plus(NotQuote)>>)), Quote>>), TRUE),
    RegExp("(?:go to|navigate to|visit|open)\\s+(https?:\\/\\/[^\\s]+)",
      Cat(<<GoToVerb, Sp1, Cap(1, Cat(<<L("http"), Maybe(Cls({"s"})), L("://"),
      Plus(NotCls(WhiteSpace))>>))>>), TRUE),
    RegExp("(?:go to|navigate to|visit|open)\\s+['\"\\/]([^'\"]+)['\"\\/]",
      Cat(<<GoToVerb, Sp1, Cls(CharsOf("'\"/")), Cap(1, Plus(NotQuote)),
      Cls(CharsOf("'\"/"))>>), TRUE),
    RegExp("(?:login|signin)\\s+page",
      Cat(<<Alt(<<L("login"), L("signin")>>), Sp1, L("page")>>), TRUE),
    RegExp("(?:register|signup)\\s+page",
      Cat(<<Alt(<<L("register"), L("signup")>>), Sp1, L("page")>>), TRUE),
    RegExp("(?:dashboard|profile|settings)\\s+page",
      Cat(<<Alt(<<L("dashboard"), L("profile"), L("settings")>>), Sp1, L("page")>>), TRUE),
    RegExp("(?:go to|navigate to|visit|open)\\s+(?:the\\s+)?(\\w+)\\s+page",
      Cat(<<GoToVerb, Sp1, Opt(Cat(<<L("the"), Sp1>>)), Cap(1, Plus(Cls(WordChars))),
      Sp1, L("page")>>), TRUE)
  >>

\* null is the empty string: the caller takes extractPath(..) || "/"
extractPath(description) ==
  LET PathOf(pattern, m1) ==
        IF m1 # "" /\ (StartsWith(m1, "http://") \/ StartsWith(m1, "https://"))
          THEN m1
        ELSE IF Includes(pattern.source, "login|signin") THEN "/login"
        ELSE IF Includes(pattern.source, "register|signup") THEN "/register"
        ELSE IF Includes(pattern.source, "dashboard") THEN "/dashboard"
        ELSE IF Includes(pattern.source, "profile") THEN "/profile"
        ELSE IF Includes(pattern.source, "settings") THEN "/settings"
        ELSE IF m1 # "" THEN (IF StartsWith(m1, "/") THEN m1 ELSE "/" \o m1)
        ELSE "/"
      First(patterns, hit) ==
        IF hit.k = 0 THEN ""
        ELSE PathOf(patterns[hit.k], Group(description, hit.match, 1))
      In(patterns) == First(patterns, FirstHit(description, patterns, 1, Len(patterns), FALSE))
  IN In(pathPatterns)

exactUsernamePatterns ==
  <<
    RegExp("(?:login|signin|log\\s+in)\\s+with\\s+username\\s+([A-Za-z0-9_@.-]+)",
      Cat(<<LoginVerb, Sp1, L("with"), Sp1, L("username"), Sp1, Cap(1,
      Plus(ValueChar))>>), TRUE),
    RegExp("(?:login|signin|log\\s+in)\\s+with\\s+user\\s+([A-Za-z0-9_@.-]+)",
      Cat(<<LoginVerb, Sp1, L("with"), Sp1, L("user"), Sp1, Cap(1, Plus(ValueChar))>>), TRUE),
    RegExp("(?:login|signin|log\\s+in)\\s+using\\s+([A-Za-z0-9_@.-]+)",
      Cat(<<LoginVerb, Sp1, L("using"), Sp1, Cap(1, Plus(ValueChar))>>), TRUE),
    RegExp("(?:login|signin|log\\s+in)\\s+as\\s+([A-Za-z0-9_@.-]+)",
      Cat(<<LoginVerb, Sp1, L("as"), Sp1, Cap(1, Plus(ValueChar))>>), TRUE),
    RegExp("username\\s+([A-Za-z0-9_@.-]+)(?!\\s*['\"'])",
      Cat(<<L("username"), Sp1, Cap(1, Plus(ValueChar)), NotAhead(Cat(<<Sp0,
      Quote>>))>>), TRUE),
    RegExp("user\\s+([A-Za-z0-9_@.-]+)(?!\\s*['\"'])",
      Cat(<<L("user"), Sp1, Cap(1, Plus(ValueChar)), NotAhead(Cat(<<Sp0, Quote>>))>>), TRUE),
    RegExp("username\\s+['\"']([^'\"]+)['\"']",
      Cat(<<L("username"), Sp1, Quote, Cap(1, Plus(NotQuote)), Quote>>), TRUE),
    RegExp("user\\s+['\"']([^'\"]+)['\"']",
      Cat(<<L("user"), Sp1, Quote, Cap(1, Plus(NotQuote)), Quote>>), TRUE),
    RegExp("set\\s+username\\s+to\\s+([A-Za-z0-9_@.-]+)",
      Cat(<<L("set"), Sp1, L("username"), Sp1, L("to"), Sp1, Cap(1, Plus(ValueChar))>>), TRUE),
    RegExp("use\\s+username\\s+([A-Za-z0-9_@.-]+)",
      Cat(<<L("use"), Sp1, L("username"), Sp1, Cap(1, Plus(ValueChar))>>), TRUE),
    RegExp("enter\\s+username\\s+([A-Za-z0-9_@.-]+)",
      Cat(<<L("enter"), Sp1, L("username"), Sp1, Cap(1, Plus(ValueChar))>>), TRUE)
  >>

exactPasswordPatterns ==
  <<
    RegExp("and\\s+password\\s+([A-Za-z0-9_@.-]+)(?!\\s*['\"'])",
      Cat(<<L("and"), Sp1, L("password"), Sp1, Cap(1, Plus(ValueChar)),
      NotAhead(Cat(<<Sp0, Quote>>))>>), TRUE),
    RegExp("with\\s+password\\s+([A-Za-z0-9_@.-]+)(?!\\s*['\"'])",
      Cat(<<L("with"), Sp1, L("password"), Sp1, Cap(1, Plus(ValueChar)),
      NotAhead(Cat(<<Sp0, Quote>>))>>), TRUE),
    RegExp("password\\s+([A-Za-z0-9_@.-]+)(?!\\s*['\"'])",
      Cat(<<L("password"), Sp1, Cap(1, Plus(ValueChar)), NotAhead(Cat(<<Sp0,
      Quote>>))>>), TRUE),
    RegExp("pass\\s+([A-Za-z0-9_@.-]+)(?!\\s*['\"'])",
      Cat(<<L("pass"), Sp1, Cap(1, Plus(ValueChar)), NotAhead(Cat(<<Sp0, Quote>>))>>), TRUE),
    RegExp("password\\s+['\"']([^'\"]+)['\"']",
      Cat(<<L("password"), Sp1, Quote, Cap(1, Plus(NotQuote)), Quote>>), TRUE),
    RegExp("pass\\s+['\"']([^'\"]+)['\"']",
      Cat(<<L("pass"), Sp1, Quote, Cap(1, Plus(NotQuote)), Quote>>), TRUE),
    RegExp("set\\s+password\\s+to\\s+([A-Za-z0-9_@.-]+)",
      Cat(<<L("set"), Sp1, L("password"), Sp1, L("to"), Sp1, Cap(1, Plus(ValueChar))>>), TRUE),
    RegExp("use\\s+password\\s+([A-Za-z0-9_@.-]+)",
      Cat(<<L("use"), Sp1, L("password"), Sp1, Cap(1, Plus(ValueChar))>>), TRUE),
    RegExp("enter\\s+password\\s+([A-Za-z0-9_@.-]+)",
      Cat(<<L("enter"), Sp1, L("password"), Sp1, Cap(1, Plus(ValueChar))>>), TRUE)
  >>

exactEmailPatterns ==
  <<
    RegExp("email\\s+['\"']?([A-Za-z0-9._%+-]+@[A-Za-z0-9.-]+\\.[A-Za-z]{2,})['\"']?",
      Cat(<<L("email"), Sp1, Maybe(Quote), Cap(1,
      Cat(<<Plus(Cls(AlphaNum \cup CharsOf("._%+-"))), L("@"),
      Plus(Cls(AlphaNum \cup CharsOf(".-"))), L("."), AtLeast(Cls(Letters), 2)>>)),
      Maybe(Quote)>>), TRUE),
    RegExp("with\\s+email\\s+([A-Za-z0-9._%+-]+@[A-Za-z0-9.-]+\\.[A-Za-z]{2,})",
      Cat(<<L("with"), Sp1, L("email"), Sp1, Cap(1,
      Cat(<<Plus(Cls(AlphaNum \cup CharsOf("._%+-"))), L("@"),
      Plus(Cls(AlphaNum \cup CharsOf(".-"))), L("."), AtLeast(Cls(Letters), 2)>>))>>), TRUE),
    RegExp("using\\s+email\\s+([A-Za-z0-9._%+-]+@[A-Za-z0-9.-]+\\.[A-Za-z]{2,})",
      Cat(<<L("using"), Sp1, L("email"), Sp1, Cap(1,
      Cat(<<Plus(Cls(AlphaNum \cup CharsOf("._%+-"))), L("@"),
      Plus(Cls(AlphaNum \cup CharsOf(".-"))), L("."), AtLeast(Cls(Letters), 2)>>))>>), TRUE)
  >>

FirstGroup1(description, patterns, key) ==
  LET First(hit) ==
        IF hit.k = 0 THEN EmptyObject
        ELSE key :> Trim(Group(description, hit.match, 1))
  IN First(FirstHit(description, patterns, 1, Len(patterns), TRUE))

extractExactValues(description) ==
  FirstGroup1(description, exactUsernamePatterns, "username")
  @@ FirstGroup1(description, exactPasswordPatterns, "password")
  @@ FirstGroup1(description, exactEmailPatterns, "email")

formPatterns ==
  <<
    [pattern |->
       RegExp("(?:try\\s+to\\s+)?(?:login|signin|log\\s+in)\\s+with\\s+username\\s+([A-Za-z0-9_@.-]+)(?:\\s+and\\s+password\\s+([A-Za-z0-9_@.-]+))?",
         Cat(<<TryTo, LoginVerb, Sp1, L("with"), Sp1, L("username"), Sp1, Cap(1,
         Plus(ValueChar)), Opt(Cat(<<Sp1, L("and"), Sp1, L("password"), Sp1, Cap(2,
         Plus(ValueChar))>>))>>), TRUE),
     fields |-> <<"username", "password">>],
    [pattern |->
       RegExp("(?:try\\s+to\\s+)?(?:login|signin|log\\s+in)\\s+with\\s+user\\s+([A-Za-z0-9_@.-]+)(?:\\s+and\\s+password\\s+([A-Za-z0-9_@.-]+))?",
         Cat(<<TryTo, LoginVerb, Sp1, L("with"), Sp1, L("user"), Sp1, Cap(1,
         Plus(ValueChar)), Opt(Cat(<<Sp1, L("and"), Sp1, L("password"), Sp1, Cap(2,
         Plus(ValueChar))>>))>>), TRUE),
     fields |-> <<"username", "password">>],
    [pattern |->
       RegExp("(?:try\\s+to\\s+)?(?:login|signin|log\\s+in)\\s+using\\s+([A-Za-z0-9_@.-]+)(?:\\s+and\\s+([A-Za-z0-9_@.-]+))?",
         Cat(<<TryTo, LoginVerb, Sp1, L("using"), Sp1, Cap(1, Plus(ValueChar)),
         Opt(Cat(<<Sp1, L("and"), Sp1, Cap(2, Plus(ValueChar))>>))>>), TRUE),
     fields |-> <<"username", "password">>],
    [pattern |->
       RegExp("(?:try\\s+to\\s+)?(?:login|signin|log\\s+in)\\s+as\\s+([A-Za-z0-9_@.-]+)(?:\\s+with\\s+password\\s+([A-Za-z0-9_@.-]+))?",
         Cat(<<TryTo, LoginVerb, Sp1, L("as"), Sp1, Cap(1, Plus(ValueChar)),
         Opt(Cat(<<Sp1, L("with"), Sp1, L("password"), Sp1, Cap(2,
         Plus(ValueChar))>>))>>), TRUE),
     fields |-> <<"username", "password">>],
    [pattern |->
       RegExp("username\\s+['\"']([^'\"]+)['\"'](?:\\s+and\\s+password\\s+['\"']([^'\"]+)['\"'])?",
         Cat(<<L("username"), Sp1, Quote, Cap(1, Plus(NotQuote)), Quote, Opt(Cat(<<Sp1,
         L("and"), Sp1, L("password"), Sp1, Quote, Cap(2, Plus(NotQuote)), Quote>>))>>), TRUE),
     fields |-> <<"username", "password">>],
    [pattern |->
       RegExp("user\\s+['\"']([^'\"]+)['\"'](?:\\s+and\\s+password\\s+['\"']([^'\"]+)['\"'])?",
         Cat(<<L("user"), Sp1, Quote, Cap(1, Plus(NotQuote)), Quote, Opt(Cat(<<Sp1,
         L("and"), Sp1, L("password"), Sp1, Quote, Cap(2, Plus(NotQuote)), Quote>>))>>), TRUE),
     fields |-> <<"username", "password">>],
    [pattern |->
       RegExp("login\\s+with\\s+['\"']([^'\"]+)['\"'](?:\\s+and\\s+['\"']([^'\"]+)['\"'])?",
         Cat(<<L("login"), Sp1, L("with"), Sp1, Quote, Cap(1, Plus(NotQuote)), Quote,
         Opt(Cat(<<Sp1, L("and"), Sp1, Quote, Cap(2, Plus(NotQuote)), Quote>>))>>), TRUE),
     fields |-> <<"username", "password">>],
    [pattern |->
       RegExp("(?:enter|fill|type|input)\\s+(?:username|user\\s*name)\\s*(?:with\\s*|as\\s*)?['\"']?([^'\"]*)['\"']?",
         Cat(<<EnterVerb, Sp1, Alt(<<L("username"), Cat(<<L("user"), Sp0,
         L("name")>>)>>), Sp0, WithOrAs, Maybe(Quote), Cap(1, Star(NotQuote)),
         Maybe(Quote)>>), TRUE),
     fields |-> <<"username">>],
    [pattern |->
       RegExp("(?:enter|fill|type|input)\\s+(?:password|pass)\\s*(?:with\\s*|as\\s*)?['\"']?([^'\"]*)['\"']?",
         Cat(<<EnterVerb, Sp1, Alt(<<L("password"), L("pass")>>), Sp0, WithOrAs,
         Maybe(Quote), Cap(1, Star(NotQuote)), Maybe(Quote)>>), TRUE),
     fields |-> <<"password">>],
    [pattern |->
       RegExp("(?:enter|fill|type|input)\\s+(?:email|e-mail)\\s*(?:with\\s*|as\\s*)?['\"']?([^'\"]*)['\"']?",
         Cat(<<EnterVerb, Sp1, Alt(<<L("email"), L("e-mail")>>), Sp0, WithOrAs,
         Maybe(Quote), Cap(1, Star(NotQuote)), Maybe(Quote)>>), TRUE),
     fields |-> <<"email">>],
    [pattern |->
       RegExp("(?:enter|fill|type|input)\\s+(?:name|full\\s*name)\\s*(?:with\\s*|as\\s*)?['\"']?([^'\"]*)['\"']?",
         Cat(<<EnterVerb, Sp1, Alt(<<L("name"), Cat(<<L("full"), Sp0, L("name")>>)>>),
         Sp0, WithOrAs, Maybe(Quote), Cap(1, Star(NotQuote)), Maybe(Quote)>>), TRUE),
     fields |-> <<"name">>],
    [pattern |->
       RegExp("(?:enter|fill|type|input)\\s+(?:phone|telephone)\\s*(?:with\\s*|as\\s*)?['\"']?([^'\"]*)['\"']?",
         Cat(<<EnterVerb, Sp1, Alt(<<L("phone"), L("telephone")>>), Sp0, WithOrAs,
         Maybe(Quote), Cap(1, Star(NotQuote)), Maybe(Quote)>>), TRUE),
     fields |-> <<"phone">>],
    [pattern |->
       RegExp("set\\s+username\\s+to\\s+([A-Za-z0-9_@.-]+)",
         Cat(<<L("set"), Sp1, L("username"), Sp1, L("to"), Sp1, Cap(1,
         Plus(ValueChar))>>), TRUE),
     fields |-> <<"username">>],
    [pattern |->
       RegExp("set\\s+password\\s+to\\s+([A-Za-z0-9_@.-]+)",
         Cat(<<L("set"), Sp1, L("password"), Sp1, L("to"), Sp1, Cap(1,
         Plus(ValueChar))>>), TRUE),
     fields |-> <<"password">>],
    [pattern |->
       RegExp("use\\s+username\\s+([A-Za-z0-9_@.-]+)",
         Cat(<<L("use"), Sp1, L("username"), Sp1, Cap(1, Plus(ValueChar))>>), TRUE),
     fields |-> <<"username">>],
    [pattern |->
       RegExp("use\\s+password\\s+([A-Za-z0-9_@.-]+)",
         Cat(<<L("use"), Sp1, L("password"), Sp1, Cap(1, Plus(ValueChar))>>), TRUE),
     fields |-> <<"password">>]
  >>

\* the pattern of every entry of a table of { pattern, ... }
Patterns(table) == [j \in 1..Len(table) |-> table[j].pattern]

FillStep(fieldName, text) ==
  [action |-> "fill",
   locator |-> [type |-> "label", value |-> capitalizeFirst(fieldName)],
   text |-> text]

\* the steps array after the call
parseFormInteractions(description, steps) ==
  LET Push(exactValues, fieldName, value) ==
        IF value # "" THEN << FillStep(fieldName, value) >>
        ELSE IF Has(exactValues, fieldName)
          THEN << FillStep(fieldName, exactValues[fieldName]) >>
        ELSE << FillStep(fieldName, "// TODO: Specify " \o fieldName \o " value") >>
      ForEach(exactValues, fields, match) ==
        [index \in 1..Len(fields) |->
           Push(exactValues, fields[index], Trim(Group(description, match, index)))]
      Flat(pushed) == IF Len(pushed) > 1 THEN pushed[1] \o pushed[2] ELSE pushed[1]
      First(exactValues, patterns, hit) ==
        IF hit.k = 0 THEN steps
        ELSE steps \o Flat(ForEach(exactValues, patterns[hit.k].fields, hit.match))
      In(exactValues, patterns, res) ==
        First(exactValues, patterns, FirstHit(description, res, 1, Len(res), FALSE))
  IN In(extractExactValues(description), formPatterns, Patterns(formPatterns))

clickPatterns ==
  <<
    [pattern |->
       RegExp("(?:click|press|tap|hit)\\s+(?:on\\s+)?(?:the\\s+)?(?:login|signin|log\\s*in)\\s*(?:button)?",
         Cat(<<ClickVerb, Sp1, OnThe, Alt(<<L("login"), L("signin"), Cat(<<L("log"),
         Sp0, L("in")>>)>>), Sp0, Opt(L("button"))>>), TRUE),
     element |-> "Login"],
    [pattern |->
       RegExp("(?:submit|send)\\s+(?:the\\s+)?(?:login|signin)\\s*(?:form)?",
         Cat(<<Alt(<<L("submit"), L("send")>>), Sp1, Opt(Cat(<<L("the"), Sp1>>)),
         Alt(<<L("login"), L("signin")>>), Sp0, Opt(L("form"))>>), TRUE),
     element |-> "Login"],
    [pattern |->
       RegExp("(?:click|press|tap|hit)\\s+(?:on\\s+)?(?:the\\s+)?(?:register|signup|sign\\s*up)\\s*(?:button)?",
         Cat(<<ClickVerb, Sp1, OnThe, Alt(<<L("register"), L("signup"), Cat(<<L("sign"),
         Sp0, L("up")>>)>>), Sp0, Opt(L("button"))>>), TRUE),
     element |-> "Register"],
    [pattern |->
       RegExp("(?:click|press|tap|hit)\\s+(?:on\\s+)?(?:the\\s+)?(?:submit|send)\\s*(?:button)?",
         Cat(<<ClickVerb, Sp1, OnThe, Alt(<<L("submit"), L("send")>>), Sp0,
         Opt(L("button"))>>), TRUE),
     element |-> "Submit"],
    [pattern |->
       RegExp("(?:click|press|tap|hit)\\s+(?:on\\s+)?(?:the\\s+)?(?:save|update)\\s*(?:button)?",
         Cat(<<ClickVerb, Sp1, OnThe, Alt(<<L("save"), L("update")>>), Sp0,
         Opt(L("button"))>>), TRUE),
     element |-> "Save"],
    [pattern |->
       RegExp("(?:click|press|tap|hit)\\s+(?:on\\s+)?(?:the\\s+)?(?:cancel|close)\\s*(?:button)?",
         Cat(<<ClickVerb, Sp1, OnThe, Alt(<<L("cancel"), L("close")>>), Sp0,
         Opt(L("button"))>>), TRUE),
     element |-> "Cancel"],
    [pattern |->
       RegExp("(?:click|press|tap|hit)\\s+(?:on\\s+)?(?:the\\s+)?['\"']([^'\"]+)['\"']",
         Cat(<<ClickVerb, Sp1, OnThe, Quote, Cap(1, Plus(NotQuote)), Quote>>), TRUE),
     element |-> ""],
    [pattern |->
       RegExp("(?:click|press|tap|hit)\\s+(?:on\\s+)?(?:the\\s+)?(\\w+)\\s*(?:button)?",
         Cat(<<ClickVerb, Sp1, OnThe, Cap(1, Plus(Cls(WordChars))), Sp0,
         Opt(L("button"))>>), TRUE),
     element |-> ""]
  >>

parseClickActions(description, steps) ==
  LET Click(element, m1) ==
        [action |-> "click",
         locator |-> [type |-> "role", role |-> "button",
                      name |-> IF element # "" THEN element ELSE m1]]
      First(patterns, hit) ==
        IF hit.k = 0 THEN steps
        ELSE Append(steps, Click(patterns[hit.k].element, Group(description, hit.match, 1)))
      In(patterns, res) == First(patterns, FirstHit(description, res, 1, Len(res), FALSE))
  IN In(clickPatterns, Patterns(clickPatterns))

assertionPatternsRx ==
  <<
    RegExp("(?:shows?|displays?|contains?|see)\\s+(?:an?\\s+)?(?:error|warning|failure)\\s*(?:message)?",
      Cat(<<Alt(<<Cat(<<L("show"), Maybe(Cls({"s"}))>>), Cat(<<L("display"),
      Maybe(Cls({"s"}))>>), Cat(<<L("contain"), Maybe(Cls({"s"}))>>), L("see")>>), Sp1,
      Opt(Cat(<<L("a"), Maybe(Cls({"n"})), Sp1>>)), Alt(<<L("error"), L("warning"),
      L("failure")>>), Sp0, Opt(L("message"))>>), TRUE),
    RegExp("(?:expect|should\\s+see)\\s+(?:an?\\s+)?error",
      Cat(<<Alt(<<L("expect"), Cat(<<L("should"), Sp1, L("see")>>)>>), Sp1,
      Opt(Cat(<<L("a"), Maybe(Cls({"n"})), Sp1>>)), L("error")>>), TRUE),
    RegExp("(?:redirect|navigate|go|taken)\\s+to\\s+(?:the\\s+)?dashboard",
      Cat(<<Alt(<<L("redirect"), L("navigate"), L("go"), L("taken")>>), Sp1, L("to"),
      Sp1, Opt(Cat(<<L("the"), Sp1>>)), L("dashboard")>>), TRUE),
    RegExp("(?:redirect|navigate|go|taken)\\s+to\\s+(?:the\\s+)?home",
      Cat(<<Alt(<<L("redirect"), L("navigate"), L("go"), L("taken")>>), Sp1, L("to"),
      Sp1, Opt(Cat(<<L("the"), Sp1>>)), L("home")>>), TRUE),
    RegExp("(?:see|sees)\\s+(?:the\\s+)?dashboard",
      Cat(<<Alt(<<L("see"), L("sees")>>), Sp1, Opt(Cat(<<L("the"), Sp1>>)),
      L("dashboard")>>), TRUE),
    RegExp("(?:success|successful|succeed)",
      Alt(<<L("success"), L("successful"), L("succeed")>>), TRUE),
    RegExp("(?:shows?|displays?|contains?|see)\\s+['\"']([^'\"]+)['\"']",
      Cat(<<Alt(<<Cat(<<L("show"), Maybe(Cls({"s"}))>>), Cat(<<L("display"),
      Maybe(Cls({"s"}))>>), Cat(<<L("contain"), Maybe(Cls({"s"}))>>), L("see")>>), Sp1,
      Quote, Cap(1, Plus(NotQuote)), Quote>>), TRUE),
    RegExp("(?:expect|should\\s+see)\\s+['\"']([^'\"]+)['\"']",
      Cat(<<Alt(<<L("expect"), Cat(<<L("should"), Sp1, L("see")>>)>>), Sp1, Quote,
      Cap(1, Plus(NotQuote)), Quote>>), TRUE),
    RegExp("(?:url|address)\\s+(?:contains?|includes?)\\s+['\"']([^'\"]+)['\"']",
      Cat(<<Alt(<<L("url"), L("address")>>), Sp1, Alt(<<Cat(<<L("contain"),
      Maybe(Cls({"s"}))>>), Cat(<<L("include"), Maybe(Cls({"s"}))>>)>>), Sp1, Quote,
      Cap(1, Plus(NotQuote)), Quote>>), TRUE)
  >>

ErrorAssertion(css) ==
  [type |-> "containsText", locator |-> [type |-> "css", value |-> css], value |-> "error"]

\* assertion is <<>> for null
assertionPatterns ==
  <<
    [pattern |-> assertionPatternsRx[1],
     assertion |-> << ErrorAssertion("[role='alert'], .error, .warning, .alert-error") >>],
    [pattern |-> assertionPatternsRx[2],
     assertion |-> << ErrorAssertion("[role='alert'], .error, .warning") >>],
    [pattern |-> assertionPatternsRx[3],
     assertion |-> << [type |-> "urlContains", value |-> "/dashboard"] >>],
    [pattern |-> assertionPatternsRx[4],
     assertion |-> << [type |-> "urlContains", value |-> "/"] >>],
    [pattern |-> assertionPatternsRx[5],
     assertion |-> << [type |-> "urlContains", value |-> "/dashboard"] >>],
    [pattern |-> assertionPatternsRx[6],
     assertion |-> << [type |-> "containsText",
                       locator |-> [type |-> "css",
                                    value |-> ".success, [role='status'], .alert-success"],
                       value |-> "success"] >>],
    [pattern |-> assertionPatternsRx[7], assertion |-> <<>>],
    [pattern |-> assertionPatternsRx[8], assertion |-> <<>>],
    [pattern |-> assertionPatternsRx[9], assertion |-> <<>>]
  >>

\* parseAssertions without the break: every matching pattern pushes its assertion
RECURSIVE assertionsFrom(_, _, _)
assertionsFrom(description, steps, k) ==
  IF k > Len(assertionPatterns) THEN steps
  ELSE LET Push(pattern, assertion, m1) ==
             IF assertion # <<>>
               THEN Append(steps, [action |-> "assert", assertion |-> assertion[1]])
             ELSE IF m1 = "" THEN steps
             ELSE IF Includes(pattern.source, "url|address")
               THEN Append(steps, [action |-> "assert",
                                   assertion |-> [type |-> "urlContains", value |-> m1]])
             ELSE Append(steps, [action |-> "assert",
                                 assertion |-> [type |-> "containsText",
                                                locator |-> [type |-> "css", value |-> "body"],
                                                value |-> m1]])
           Matched(entry, match) ==
             IF ~match.ok THEN steps
             ELSE Push(entry.pattern, entry.assertion, Group(description, match, 1))
           At1(entry) == Matched(entry, StrMatch(description, entry.pattern))
       IN assertionsFrom(description, At1(assertionPatterns[k]), k + 1)

parseAssertionsNoBreak(description, steps) == assertionsFrom(description, steps, 1)

parseAssertions(description, steps) ==
  LET Push(pattern, assertion, m1) ==
        IF assertion # <<>>
          THEN Append(steps, [action |-> "assert", assertion |-> assertion[1]])
        ELSE IF m1 = "" THEN steps
        ELSE IF Includes(pattern.source, "url|address")
          THEN Append(steps, [action |-> "assert",
                              assertion |-> [type |-> "urlContains", value |-> m1]])
        ELSE Append(steps, [action |-> "assert",
                            assertion |-> [type |-> "containsText",
                                           locator |-> [type |-> "css", value |-> "body"],
                                           value |-> m1]])
      First(patterns, hit) ==
        IF hit.k = 0 THEN steps
        ELSE Push(patterns[hit.k].pattern, patterns[hit.k].assertion,
                  Group(description, hit.match, 1))
      In(patterns, res) == First(patterns, FirstHit(description, res, 1, Len(res), FALSE))
  IN In(assertionPatterns, Patterns(assertionPatterns))

extractTags(description) ==
  LET d == ToLowerCase(description)
      Tag(hit, tag) == IF hit THEN << tag >> ELSE <<>>
  IN Tag(Includes(d, "login") \/ Includes(d, "signin"), "authentication")
     \o Tag(Includes(d, "register") \/ Includes(d, "signup"), "registration")
     \o Tag(Includes(d, "error") \/ Includes(d, "fail"), "negative")
     \o Tag(Includes(d, "success") \/ Includes(d, "pass"), "positive")
     \o Tag(Includes(d, "form"), "form")

\* options = {} in every call of the pipeline
DefaultOptions == [includeNavigation |-> TRUE, generateAssertions |-> TRUE]

generateTestCase(description, baseUrl, options) ==
  LET Goto(path) == [action |-> "goto", path |-> IF path # "" THEN path ELSE "/"]
      Navigation(lowerDesc) ==
        IF options.includeNavigation THEN << Goto(extractPath(lowerDesc)) >> ELSE <<>>
      Asserted(lowerDesc, steps) ==
        IF options.generateAssertions THEN parseAssertions(lowerDesc, steps) ELSE steps
      Steps(lowerDesc) ==
        Asserted(lowerDesc,
          parseClickActions(lowerDesc, parseFormInteractions(lowerDesc, Navigation(lowerDesc))))
      Resolved(lowerDesc) ==
        [meta |-> [name |-> testName(description),
                   baseUrl |-> baseUrl,
                   description |-> description,
                   tags |-> extractTags(lowerDesc)],
         steps |-> Steps(lowerDesc)]
  IN Resolved(ToLowerCase(description))

(***************************************************************************)
(* src/core/dsl-generator.ts, the first set of declarations (lines 1-314)  *)
(***************************************************************************)
legacyAssertionPatternsRx ==
  <<
    RegExp("(?:shows?|displays?|contains?)\\s+(?:error|warning)\\s*(?:message)?",
      Cat(<<Alt(<<Cat(<<L("show"), Maybe(Cls({"s"}))>>), Cat(<<L("display"),
      Maybe(Cls({"s"}))>>), Cat(<<L("contain"), Maybe(Cls({"s"}))>>)>>), Sp1,
      Alt(<<L("error"), L("warning")>>), Sp0, Opt(L("message"))>>), TRUE),
    RegExp("(?:redirect|navigate|go)\\s+to\\s+(?:the\\s+)?dashboard",
      Cat(<<Alt(<<L("redirect"), L("navigate"), L("go")>>), Sp1, L("to"), Sp1,
      Opt(Cat(<<L("the"), Sp1>>)), L("dashboard")>>), TRUE),
    RegExp("(?:redirect|navigate|go)\\s+to\\s+(?:the\\s+)?home",
      Cat(<<Alt(<<L("redirect"), L("navigate"), L("go")>>), Sp1, L("to"), Sp1,
      Opt(Cat(<<L("the"), Sp1>>)), L("home")>>), TRUE),
    RegExp("(?:success|successful)",
      Alt(<<L("success"), L("successful")>>), TRUE),
    RegExp("(?:shows?|displays?)\\s+['\"']([^'\"]+)['\"']",
      Cat(<<Alt(<<Cat(<<L("show"), Maybe(Cls({"s"}))>>), Cat(<<L("display"),
      Maybe(Cls({"s"}))>>)>>), Sp1, Quote, Cap(1, Plus(NotQuote)), Quote>>), TRUE)
  >>

legacyAssertionPatterns ==
  <<
    [pattern |-> legacyAssertionPatternsRx[1],
     assertion |-> << ErrorAssertion("[role='alert'], .error, .warning") >>],
    [pattern |-> legacyAssertionPatternsRx[2],
     assertion |-> << [type |-> "urlContains", value |-> "/dashboard"] >>],
    [pattern |-> legacyAssertionPatternsRx[3],
     assertion |-> << [type |-> "urlContains", value |-> "/"] >>],
    [pattern |-> legacyAssertionPatternsRx[4],
     assertion |-> << [type |-> "containsText",
                       locator |-> [type |-> "css", value |-> ".success, [role='status']"],
                       value |-> "success"] >>],
    [pattern |-> legacyAssertionPatternsRx[5], assertion |-> <<>>]
  >>

legacyParseAssertions(description, steps) ==
  LET Push(assertion, m1) ==
        IF assertion # <<>>
          THEN Append(steps, [action |-> "assert", assertion |-> assertion[1]])
        ELSE IF m1 = "" THEN steps
        ELSE Append(steps, [action |-> "assert",
                            assertion |-> [type |-> "containsText",
                                           locator |-> [type |-> "css", value |-> "body"],
                                           value |-> m1]])
      First(patterns, hit) ==
        IF hit.k = 0 THEN steps
        ELSE Push(patterns[hit.k].assertion, Group(description, hit.match, 1))
      In(patterns, res) == First(patterns, FirstHit(description, res, 1, Len(res), FALSE))
  IN In(legacyAssertionPatterns, Patterns(legacyAssertionPatterns))

(***************************************************************************)
(* src/core/code-generator.ts: the renderers                               *)
(***************************************************************************)
\* ' '.repeat(indent)
Spaces(indent) == SubSeq("                ", 1, indent)

\* `${o.key}` in a template literal: an absent property reads as undefined
Interp(o, key) == IF key \in DOMAIN o THEN o[key] ELSE "undefined"

\* `step.locator!` and `step.assertion!` are not checked at run time: reading
\* .type of undefined throws a TypeError (the same in every step renderer of
\* this file)
DereferencesUndefined(step) ==
  \/ step.action \in {"fill", "click"} /\ "locator" \notin DOMAIN step
  \/ step.action = "assert" /\ "assertion" \notin DOMAIN step

\* generatePlaywrightLocator with every type treated as the default case
generatePlaywrightLocatorValueOnly(locator) ==
  IF "value" \in DOMAIN locator THEN locator.value ELSE ""

generatePlaywrightLocator(locator) ==
  CASE locator.type = "label" -> "label:has-text(\"" \o Interp(locator, "value") \o "\")"
    [] locator.type = "id" -> "#" \o Interp(locator, "value")
    [] locator.type = "role" ->
         "role=" \o Interp(locator, "role") \o "[name=\"" \o Interp(locator, "name") \o "\"]"
    [] locator.type = "text" -> "text=" \o Interp(locator, "value")
    [] locator.type = "css" -> Interp(locator, "value")
    [] locator.type = "xpath" -> "xpath=" \o Interp(locator, "value")
    [] OTHER -> IF "value" \in DOMAIN locator THEN locator.value ELSE ""

generatePlaywrightAssertion(step, indent) ==
  LET spaces == Spaces(indent)
      assertion == step.assertion
      Locator(default) ==
        IF "locator" \in DOMAIN assertion THEN generatePlaywrightLocator(assertion.locator)
        ELSE default
  IN CASE assertion.type = "containsText" ->
            spaces \o "await expect(page.locator('" \o Locator("body")
              \o "')).toContainText('" \o Interp(assertion, "value") \o "');"
       [] assertion.type = "visible" ->
            spaces \o "await expect(page.locator('" \o Locator("body") \o "')).toBeVisible();"
       [] assertion.type = "urlContains" ->
            spaces \o "await expect(page).toHaveURL(new RegExp('.*"
              \o Interp(assertion, "value") \o ".*'));"
       [] assertion.type = "hasValue" ->
            spaces \o "await expect(page.locator('" \o Locator("input")
              \o "')).toHaveValue('" \o Interp(assertion, "value") \o "');"
       [] assertion.type = "isEnabled" ->
            spaces \o "await expect(page.locator('" \o Locator("button") \o "')).toBeEnabled();"
       [] assertion.type = "isDisabled" ->
            spaces \o "await expect(page.locator('" \o Locator("button")
              \o "')).toBeDisabled();"
       [] OTHER -> spaces \o "// Unknown assertion: " \o assertion.type

\* index counts from 1 here, from 0 in the source
generatePlaywrightStep(step, indent, includeComments, includeScreenshots, index) ==
  LET spaces == Spaces(indent)
      comment == IF includeComments
                   THEN spaces \o "// Step " \o ToString(index) \o ": " \o step.action \o "\n"
                   ELSE ""
      body ==
        CASE step.action = "goto" ->
               spaces \o "await page.goto('" \o (IF Has(step, "path") THEN step.path ELSE "/")
                 \o "');"
          [] step.action = "fill" ->
               spaces \o "await page.locator('" \o generatePlaywrightLocator(step.locator)
                 \o "').fill('" \o Interp(step, "text") \o "');"
          [] step.action = "click" ->
               spaces \o "await page.locator('" \o generatePlaywrightLocator(step.locator)
                 \o "').click();"
          [] step.action = "assert" -> generatePlaywrightAssertion(step, indent)
          [] OTHER -> spaces \o "// Unknown action: " \o step.action
      shot == IF includeScreenshots
                THEN "\n" \o spaces \o "await page.screenshot({ path: 'step-"
                       \o ToString(index) \o "-" \o step.action \o ".png' });"
                ELSE ""
  IN comment \o body \o shot

PlaywrightOptions ==
  [framework |-> "playwright", language |-> "typescript", includeComments |-> TRUE,
   includeScreenshots |-> FALSE, timeout |-> 30000]

generatePlaywrightCode(testCase, options) ==
  LET isTypeScript == options.language = "typescript"
      includeComments == options.includeComments
      imports == IF isTypeScript
                   THEN "import { test, expect, Page } from '@playwright/test';"
                   ELSE "const { test, expect } = require('@playwright/test');"
      testFunction ==
        IF isTypeScript
          THEN "test('" \o testCase.meta.name \o "', async ({ page }: { page: Page }) => {"
          ELSE "test('" \o testCase.meta.name \o "', async ({ page }) => {"
      rendered == [i \in 1..Len(testCase.steps) |->
                     generatePlaywrightStep(testCase.steps[i], 2, includeComments,
                                            options.includeScreenshots, i)]
  IN [code |->
        imports \o "\n\n"
        \o (IF includeComments
              THEN "// Test: " \o (IF testCase.meta.description # ""
                                     THEN testCase.meta.description
                                     ELSE testCase.meta.name)
              ELSE "") \o "\n"
        \o (IF includeComments THEN "// Base URL: " \o testCase.meta.baseUrl ELSE "") \o "\n"
        \o (IF includeComments THEN "// Tags: " \o Join(testCase.meta.tags, ", ") ELSE "")
        \o "\n\n"
        \o testFunction \o "\n"
        \o (IF includeComments THEN "  // Set timeout for the test" ELSE "") \o "\n"
        \o "  test.setTimeout(" \o ToString(options.timeout) \o ");\n"
        \o "  \n"
        \o Join(rendered, "\n") \o "\n"
        \o "});",
      framework |-> "playwright",
      language |-> options.language]

generateSeleniumPythonStep(step, indent) ==
  LET spaces == Spaces(indent)
      generateSeleniumPythonLocator(locator) ==
        CASE locator.type = "id" -> "By.ID, \"" \o Interp(locator, "value") \o "\""
          [] locator.type = "css" -> "By.CSS_SELECTOR, \"" \o Interp(locator, "value") \o "\""
          [] locator.type = "xpath" -> "By.XPATH, \"" \o Interp(locator, "value") \o "\""
          [] locator.type = "text" ->
               "By.XPATH, \"//*[contains(text(), '" \o Interp(locator, "value") \o "')]\""
          [] OTHER -> "By.CSS_SELECTOR, \"" \o Interp(locator, "value") \o "\""
      generateSeleniumPythonAssertion(assertion) ==
        CASE assertion.type = "containsText" ->
               spaces \o "self.assertIn(\"" \o Interp(assertion, "value")
                 \o "\", driver.page_source)"
          [] assertion.type = "urlContains" ->
               spaces \o "self.assertIn(\"" \o Interp(assertion, "value")
                 \o "\", driver.current_url)"
          [] OTHER -> spaces \o "# Unknown assertion: " \o assertion.type
  IN CASE step.action = "goto" ->
            spaces \o "driver.get(\"" \o (IF Has(step, "path") THEN step.path ELSE "/") \o "\")"
       [] step.action = "fill" ->
            spaces \o "driver.find_element(" \o generateSeleniumPythonLocator(step.locator)
              \o ").send_keys(\"" \o Interp(step, "text") \o "\")"
       [] step.action = "click" ->
            spaces \o "driver.find_element(" \o generateSeleniumPythonLocator(step.locator)
              \o ").click()"
       [] step.action = "assert" -> generateSeleniumPythonAssertion(step.assertion)
       [] OTHER -> spaces \o "# Unknown action: " \o step.action

generateSeleniumJavaStep(step, indent) ==
  LET spaces == Spaces(indent)
      generateSeleniumJavaLocator(locator) ==
        CASE locator.type = "id" -> "By.id(\"" \o Interp(locator, "value") \o "\")"
          [] locator.type = "css" -> "By.cssSelector(\"" \o Interp(locator, "value") \o "\")"
          [] locator.type = "xpath" -> "By.xpath(\"" \o Interp(locator, "value") \o "\")"
          [] OTHER -> "By.cssSelector(\"" \o Interp(locator, "value") \o "\")"
      generateSeleniumJavaAssertion(assertion) ==
        CASE assertion.type = "containsText" ->
               spaces \o "assertTrue(driver.getPageSource().contains(\""
                 \o Interp(assertion, "value") \o "\"));"
          [] assertion.type = "urlContains" ->
               spaces \o "assertTrue(driver.getCurrentUrl().contains(\""
                 \o Interp(assertion, "value") \o "\"));"
          [] OTHER -> spaces \o "// Unknown assertion: " \o assertion.type
  IN CASE step.action = "goto" ->
            spaces \o "driver.get(\"" \o (IF Has(step, "path") THEN step.path ELSE "/") \o "\");"
       [] step.action = "fill" ->
            spaces \o "driver.findElement(" \o generateSeleniumJavaLocator(step.locator)
              \o ").sendKeys(\"" \o Interp(step, "text") \o "\");"
       [] step.action = "click" ->
            spaces \o "driver.findElement(" \o generateSeleniumJavaLocator(step.locator)
              \o ").click();"
       [] step.action = "assert" -> generateSeleniumJavaAssertion(step.assertion)
       [] OTHER -> spaces \o "// Unknown action: " \o step.action

generateCypressStep(step, indent, includeScreenshots) ==
  LET spaces == Spaces(indent)
      \* `return locator.value` inside '${..}': an absent value reads as undefined
      generateCypressSelector(locator) ==
        CASE locator.type = "id" -> "#" \o Interp(locator, "value")
          [] locator.type = "css" -> Interp(locator, "value")
          [] locator.type = "text" -> "[data-cy=\"" \o Interp(locator, "value") \o "\"]"
          [] OTHER -> Interp(locator, "value")
      generateCypressAssertion(assertion) ==
        CASE assertion.type = "containsText" ->
               spaces \o "cy.contains('" \o Interp(assertion, "value")
                 \o "').should('be.visible');"
          [] assertion.type = "urlContains" ->
               spaces \o "cy.url().should('contain', '" \o Interp(assertion, "value") \o "');"
          [] assertion.type = "visible" ->
               spaces \o "cy.get('"
                 \o (IF "locator" \in DOMAIN assertion
                       THEN generateCypressSelector(assertion.locator) ELSE "body")
                 \o "').should('be.visible');"
          [] OTHER -> spaces \o "// Unknown assertion: " \o assertion.type
      code ==
        CASE step.action = "goto" ->
               spaces \o "cy.visit('" \o (IF Has(step, "path") THEN step.path ELSE "/") \o "');"
          [] step.action = "fill" ->
               spaces \o "cy.get('" \o generateCypressSelector(step.locator) \o "').type('"
                 \o Interp(step, "text") \o "');"
          [] step.action = "click" ->
               spaces \o "cy.get('" \o generateCypressSelector(step.locator) \o "').click();"
          [] step.action = "assert" -> generateCypressAssertion(step.assertion)
          [] OTHER -> spaces \o "// Unknown action: " \o step.action
  IN code \o (IF includeScreenshots
                THEN "\n" \o spaces \o "cy.screenshot('" \o step.action \o "-step');"
                ELSE "")

\* testCase.meta.description || testCase.meta.name
Title(testCase) ==
  IF Has(testCase.meta, "description") THEN testCase.meta.description ELSE testCase.meta.name

generateSeleniumCode(testCase, options) ==
  IF options.language = "python"
    THEN [code |->
            "from selenium import webdriver\n"
            \o "from selenium.webdriver.common.by import By\n"
            \o "from selenium.webdriver.support.ui import WebDriverWait\n"
            \o "from selenium.webdriver.support import expected_conditions as EC\n"
            \o "import unittest\n\n"
            \o "class " \o capitalizeFirst(testCase.meta.name) \o "Test(unittest.TestCase):\n"
            \o "    def setUp(self):\n"
            \o "        self.driver = webdriver.Chrome()\n"
            \o "        self.driver.implicitly_wait(10)\n"
            \o "    \n"
            \o "    def tearDown(self):\n"
            \o "        self.driver.quit()\n"
            \o "    \n"
            \o "    def test_" \o testCase.meta.name \o "(self):\n"
            \o "        " \o (IF options.includeComments
                                THEN "\"\"\"" \o Title(testCase) \o "\"\"\"" ELSE "") \o "\n"
            \o "        driver = self.driver\n"
            \o "        \n"
            \o Join([i \in 1..Len(testCase.steps) |->
                       generateSeleniumPythonStep(testCase.steps[i], 8)], "\n")
            \o "\n\nif __name__ == \"__main__\":\n"
            \o "    unittest.main()",
          framework |-> "selenium",
          language |-> "python"]
  ELSE [code |->
          "import org.openqa.selenium.WebDriver;\n"
          \o "import org.openqa.selenium.chrome.ChromeDriver;\n"
          \o "import org.openqa.selenium.By;\n"
          \o "import org.openqa.selenium.WebElement;\n"
          \o "import org.openqa.selenium.support.ui.WebDriverWait;\n"
          \o "import org.openqa.selenium.support.ui.ExpectedConditions;\n"
          \o "import org.junit.After;\n"
          \o "import org.junit.Before;\n"
          \o "import org.junit.Test;\n"
          \o "import static org.junit.Assert.*;\n\n"
          \o "public class " \o capitalizeFirst(testCase.meta.name) \o "Test {\n"
          \o "    private WebDriver driver;\n"
          \o "    private WebDriverWait wait;\n"
          \o "    \n"
          \o "    @Before\n"
          \o "    public void setUp() {\n"
          \o "        driver = new ChromeDriver();\n"
          \o "        wait = new WebDriverWait(driver, 10);\n"
          \o "    }\n"
          \o "    \n"
          \o "    @After\n"
          \o "    public void tearDown() {\n"
          \o "        driver.quit();\n"
          \o "    }\n"
          \o "    \n"
          \o "    @Test\n"
          \o "    public void test" \o capitalizeFirst(testCase.meta.name) \o "() {\n"
          \o Join([i \in 1..Len(testCase.steps) |->
                     generateSeleniumJavaStep(testCase.steps[i], 8)], "\n")
          \o "\n    }\n}",
        framework |-> "selenium",
        language |-> "java"]

\* generateCypressCode with the steps rendered last to first
generateCypressCodeReversed(testCase, options) ==
  [code |->
     (IF options.includeComments THEN "// Test: " \o Title(testCase) ELSE "") \o "\n"
     \o (IF options.includeComments THEN "// Base URL: " \o testCase.meta.baseUrl ELSE "")
     \o "\n\n"
     \o "describe('" \o testCase.meta.name \o "', () => {\n"
     \o "  it('" \o Title(testCase) \o "', () => {\n"
     \o Join([i \in 1..Len(testCase.steps) |->
                generateCypressStep(testCase.steps[Len(testCase.steps) + 1 - i], 4,
                                    options.includeScreenshots)], "\n")
     \o "\n  });\n});",
   framework |-> "cypress",
   language |-> options.language]

generateCypressCode(testCase, options) ==
  [code |->
     (IF options.includeComments THEN "// Test: " \o Title(testCase) ELSE "") \o "\n"
     \o (IF options.includeComments THEN "// Base URL: " \o testCase.meta.baseUrl ELSE "")
     \o "\n\n"
     \o "describe('" \o testCase.meta.name \o "', () => {\n"
     \o "  it('" \o Title(testCase) \o "', () => {\n"
     \o Join([i \in 1..Len(testCase.steps) |->
                generateCypressStep(testCase.steps[i], 4, options.includeScreenshots)], "\n")
     \o "\n  });\n});",
   framework |-> "cypress",
   language |-> options.language]

\* a call either returns a value or throws a message
Returned(value) == [threw |-> FALSE, value |-> value]

Thrown(message) == [threw |-> TRUE, message |-> message]

generateCode(testCase, options) ==
  IF options.framework \notin {"playwright", "selenium", "cypress"}
    THEN Thrown("Unsupported framework: " \o options.framework)
  ELSE IF \E i \in 1..Len(testCase.steps) : DereferencesUndefined(testCase.steps[i])
    THEN Thrown("Cannot read properties of undefined (reading 'type')")
  ELSE IF options.framework = "playwright"
    THEN Returned(generatePlaywrightCode(testCase, options))
  ELSE IF options.framework = "selenium"
    THEN Returned(generateSeleniumCode(testCase, options))
  ELSE Returned(generateCypressCode(testCase, options))

(***************************************************************************)
(* src/core/universal-strict-generator.ts                                  *)
(***************************************************************************)
PasswordChar == Cls(AlphaNum \cup CharsOf("_.@!-"))

usernamePatterns ==
  <<
    RegExp("(?:try\\s+to\\s+)?(?:login|signin|log\\s+in)\\s+with\\s+username\\s+([A-Za-z0-9_\\.@-]+)",
      Cat(<<TryTo, LoginVerb, Sp1, L("with"), Sp1, L("username"), Sp1, Cap(1,
      Plus(ValueChar))>>), TRUE),
    RegExp("(?:try\\s+to\\s+)?(?:login|signin|log\\s+in)\\s+with\\s+user\\s+([A-Za-z0-9_\\.@-]+)",
      Cat(<<TryTo, LoginVerb, Sp1, L("with"), Sp1, L("user"), Sp1, Cap(1,
      Plus(ValueChar))>>), TRUE),
    RegExp("(?:try\\s+to\\s+)?(?:login|signin|log\\s+in)\\s+using\\s+([A-Za-z0-9_\\.@-]+)",
      Cat(<<TryTo, LoginVerb, Sp1, L("using"), Sp1, Cap(1, Plus(ValueChar))>>), TRUE),
    RegExp("username\\s+([A-Za-z0-9_\\.@-]+)(?:\\s+and|\\s*$)",
      Cat(<<L("username"), Sp1, Cap(1, Plus(ValueChar)), Alt(<<Cat(<<Sp1, L("and")>>),
      Cat(<<Sp0, End>>)>>)>>), TRUE),
    RegExp("user\\s+([A-Za-z0-9_\\.@-]+)(?:\\s+and|\\s*$)",
      Cat(<<L("user"), Sp1, Cap(1, Plus(ValueChar)), Alt(<<Cat(<<Sp1, L("and")>>),
      Cat(<<Sp0, End>>)>>)>>), TRUE),
    RegExp("with\\s+([A-Za-z0-9_\\.@-]+)\\s+and\\s+password",
      Cat(<<L("with"), Sp1, Cap(1, Plus(ValueChar)), Sp1, L("and"), Sp1,
      L("password")>>), TRUE)
  >>

passwordPatterns ==
  <<
    RegExp("(?:and\\s+)?password\\s+([A-Za-z0-9_\\.@!-]+)",
      Cat(<<Opt(Cat(<<L("and"), Sp1>>)), L("password"), Sp1, Cap(1,
      Plus(PasswordChar))>>), TRUE),
    RegExp("(?:and\\s+)?pass\\s+([A-Za-z0-9_\\.@!-]+)",
      Cat(<<Opt(Cat(<<L("and"), Sp1>>)), L("pass"), Sp1, Cap(1, Plus(PasswordChar))>>), TRUE),
    RegExp("and\\s+([A-Za-z0-9_\\.@!-]+)(?:\\s*$|\\s*[,.])",
      Cat(<<L("and"), Sp1, Cap(1, Plus(PasswordChar)), Alt(<<Cat(<<Sp0, End>>),
      Cat(<<Sp0, Cls(CharsOf(",."))>>)>>)>>), TRUE)
  >>

urlPattern ==
  RegExp("(?:go\\s+to|visit|navigate\\s+to|login\\s+to)\\s+(https?:\\/\\/[^\\s]+)",
    Cat(<<Alt(<<Cat(<<L("go"), Sp1, L("to")>>), L("visit"), Cat(<<L("navigate"), Sp1,
    L("to")>>), Cat(<<L("login"), Sp1, L("to")>>)>>), Sp1, Cap(1, Cat(<<L("http"),
    Maybe(Cls({"s"})), L("://"), Plus(NotCls(WhiteSpace))>>))>>), TRUE)

buttonPattern ==
  RegExp("(?:click|press|tap)\\s+(?:the\\s+)?(?:login|signin|submit|register)",
    Cat(<<Alt(<<L("click"), L("press"), L("tap")>>), Sp1, Opt(Cat(<<L("the"), Sp1>>)),
    Alt(<<L("login"), L("signin"), L("submit"), L("register")>>)>>), TRUE)

buttonPrefixPattern ==
  RegExp("(?:click|press|tap)\\s+(?:the\\s+)?",
    Cat(<<Alt(<<L("click"), L("press"), L("tap")>>), Sp1, Opt(Cat(<<L("the"), Sp1>>))>>), TRUE)

expectPattern ==
  RegExp("expect\\s+([^,.\\n]+)",
    Cat(<<L("expect"), Sp1, Cap(1, Plus(NotCls(CharsOf(",.\n"))))>>), TRUE)

\* s.replace(re, '') for a pattern without the g flag
RemoveFirst(s, re) ==
  LET Without(m) == IF m.ok THEN Sub(s, 1, m.b) \o Sub(s, m.e, Len(s) + 1) ELSE s
  IN Without(StrMatch(s, re))

\* the password loop without the look at the username: the first match is taken
PasswordFromFirstMatch(description, values, k) ==
  FirstGroup1(description, passwordPatterns, "password")

\* the password loop: a candidate that occurs inside the username is passed over
RECURSIVE PasswordFrom(_, _, _)
PasswordFrom(description, values, k) ==
  IF k > Len(passwordPatterns) THEN EmptyObject
  ELSE LET Taken(ok, m1) ==
             IF ok /\ m1 # ""
                /\ ~("username" \in DOMAIN values /\ Includes(values.username, m1))
               THEN "password" :> Trim(m1)
             ELSE PasswordFrom(description, values, k + 1)
           Matched(match) ==
             Taken(match.ok, IF match.ok THEN Group(description, match, 1) ELSE "")
       IN Matched(StrMatch(description, passwordPatterns[k]))

extractAllValues(description) ==
  LET UsernameAndPassword(username) == username @@ PasswordFrom(description, username, 1)
      Url(urlMatch) ==
        IF urlMatch.ok THEN "url" :> Group(description, urlMatch, 1) ELSE EmptyObject
      Button(buttonMatch) ==
        IF buttonMatch.ok
          THEN "button" :> RemoveFirst(Group(description, buttonMatch, 0), buttonPrefixPattern)
          ELSE EmptyObject
      Expected(expectMatch) ==
        IF expectMatch.ok THEN "expected" :> Trim(Group(description, expectMatch, 1))
        ELSE EmptyObject
  IN UsernameAndPassword(FirstGroup1(description, usernamePatterns, "username"))
     @@ Url(StrMatch(description, urlPattern))
     @@ Button(StrMatch(description, buttonPattern))
     @@ Expected(StrMatch(description, expectPattern))

parseToResolvedSteps(description, values) ==
  LET lowerDesc == ToLowerCase(description)
      login == Includes(lowerDesc, "login") \/ Includes(lowerDesc, "signin")
      Step(hit, text) == IF hit THEN << text >> ELSE <<>>
  IN (IF Has(values, "url") THEN << "Navigate to " \o values.url >>
      ELSE Step(login, "Navigate to login page (URL: // TODO: URL not specified)"))
     \o Step(Has(values, "username"),
             "Fill username field with \""
               \o (IF Has(values, "username") THEN values.username ELSE "") \o "\"")
     \o Step(Has(values, "password"),
             "Fill password field with \""
               \o (IF Has(values, "password") THEN values.password ELSE "") \o "\"")
     \o (IF login THEN << "Click login button" >>
         ELSE Step(Includes(lowerDesc, "submit"), "Click submit button"))
     \o (IF Has(values, "expected") THEN << "Assert: " \o values.expected >>
         ELSE IF Includes(lowerDesc, "login") /\ ~Includes(lowerDesc, "wrong")
                 /\ ~Includes(lowerDesc, "invalid")
           THEN << "Assert: URL contains '/dashboard' OR login success indicator appears" >>
         ELSE Step(Includes(lowerDesc, "error") \/ Includes(lowerDesc, "wrong")
                     \/ Includes(lowerDesc, "invalid"),
                   "Assert: Error message appears (exact text: // TODO: Specify error message)"))

enhancedStep(step, extractedValues, originalDescription) ==
  CASE step.action = "goto" ->
         [action |-> "goto",
          path |-> IF Has(extractedValues, "url") THEN extractedValues.url
                   ELSE IF "path" \in DOMAIN step /\ step.path # "" THEN step.path
                   ELSE "// TODO: URL not specified"]
    [] step.action = "fill" ->
         LET label == IF "locator" \in DOMAIN step /\ "value" \in DOMAIN step.locator
                        THEN ToLowerCase(step.locator.value) ELSE ""
         IN IF Includes(label, "username") /\ "locator" \in DOMAIN step
              THEN [action |-> "fill", locator |-> step.locator,
                    text |-> IF Has(extractedValues, "username") THEN extractedValues.username
                             ELSE "// TODO: Username not specified"]
            ELSE IF Includes(label, "password") /\ "locator" \in DOMAIN step
              THEN [action |-> "fill", locator |-> step.locator,
                    text |-> IF Has(extractedValues, "password") THEN extractedValues.password
                             ELSE "// TODO: Password not specified"]
            ELSE step
    [] step.action = "click" -> step
    [] step.action = "assert" ->
         IF Includes(ToLowerCase(originalDescription), "dashboard")
           THEN [action |-> "assert",
                 assertion |-> [type |-> "urlContains", value |-> "/dashboard"]]
         ELSE IF Has(extractedValues, "expected")
           THEN [action |-> "assert",
                 assertion |-> [type |-> "containsText",
                                locator |-> [type |-> "css", value |-> "body"],
                                value |-> extractedValues.expected]]
         ELSE [action |-> "assert",
               assertion |-> [type |-> "containsText",
                              locator |-> [type |-> "css",
                                           value |-> "// TODO: Specify selector"],
                              value |-> "// TODO: Specify expected text"]]
    [] OTHER -> step

enhanceWithStrictMode(testCase, extractedValues, originalDescription) ==
  [testCase EXCEPT
     !.steps = [i \in 1..Len(testCase.steps) |->
                  enhancedStep(testCase.steps[i], extractedValues, originalDescription)]]

\* the entries of the object in insertion order
ValueKeys == << "username", "password", "url", "button", "expected" >>

forbiddenAdditions == << "waitForTimeout", "waitForSelector", "retry", "catch" >>

performSelfValidation(originalDescription, generatedCode, extractedValues) ==
  LET Error(hit, text) == IF hit THEN << text >> ELSE <<>>
      Missing(key) ==
        Error(Has(extractedValues, key) /\ ~StartsWith(extractedValues[key], "//")
                /\ ~Includes(generatedCode, extractedValues[key]),
              "DEVIATION: Extracted " \o key \o " value \""
                \o (IF Has(extractedValues, key) THEN extractedValues[key] ELSE "")
                \o "\" not found in generated code")
      Addition(forbidden) ==
        Error(Includes(generatedCode, forbidden),
              "DEVIATION: Unauthorized addition \"" \o forbidden \o "\" found in code")
  IN Missing(ValueKeys[1]) \o Missing(ValueKeys[2]) \o Missing(ValueKeys[3])
     \o Missing(ValueKeys[4]) \o Missing(ValueKeys[5])
     \o Error(Has(extractedValues, "username") /\ Includes(generatedCode, "testuser")
                /\ extractedValues.username # "testuser",
              "DEVIATION: Username \""
                \o (IF Has(extractedValues, "username") THEN extractedValues.username ELSE "")
                \o "\" replaced with placeholder \"testuser\"")
     \o Error(Has(extractedValues, "password") /\ Includes(generatedCode, "password123")
                /\ extractedValues.password # "password123",
              "DEVIATION: Password \""
                \o (IF Has(extractedValues, "password") THEN extractedValues.password ELSE "")
                \o "\" replaced with placeholder \"password123\"")
     \o Addition(forbiddenAdditions[1]) \o Addition(forbiddenAdditions[2])
     \o Addition(forbiddenAdditions[3]) \o Addition(forbiddenAdditions[4])

\* strictResult with the rendered code left in place when deviations were found
strictResultKeepsCode(resolvedSteps, extractedValues, result, validationErrors) ==
  IF result.threw
    THEN [resolvedSteps |-> resolvedSteps,
          playwrightCode |-> "ERROR: " \o result.message,
          extractedValues |-> extractedValues,
          errors |-> << result.message >>]
  ELSE [resolvedSteps |-> resolvedSteps,
        playwrightCode |-> result.value.code,
        extractedValues |-> extractedValues,
        errors |-> validationErrors]

\* the three return statements: result is what generateCode returned or threw,
\* validationErrors what the self-validation found when it returned
strictResult(resolvedSteps, extractedValues, result, validationErrors) ==
  IF result.threw
    THEN [resolvedSteps |-> resolvedSteps,
          playwrightCode |-> "ERROR: " \o result.message,
          extractedValues |-> extractedValues,
          errors |-> << result.message >>]
  ELSE IF Len(validationErrors) > 0
    THEN [resolvedSteps |-> resolvedSteps,
          playwrightCode |-> "ERROR: DEVIATION DETECTED\n" \o Join(validationErrors, "\n"),
          extractedValues |-> extractedValues,
          errors |-> validationErrors]
  ELSE [resolvedSteps |-> resolvedSteps,
        playwrightCode |-> result.value.code,
        extractedValues |-> extractedValues,
        errors |-> <<>>]

generateFromPlainEnglish(plainEnglish, baseUrl) ==
  LET extractedValues == extractAllValues(plainEnglish)
      resolvedSteps == parseToResolvedSteps(plainEnglish, extractedValues)
      testCase == generateTestCase(plainEnglish, baseUrl, DefaultOptions)
      strictTestCase == enhanceWithStrictMode(testCase, extractedValues, plainEnglish)
      result == generateCode(strictTestCase, PlaywrightOptions)
      validationErrors ==
        IF result.threw THEN <<>>
        ELSE performSelfValidation(plainEnglish, result.value.code, extractedValues)
  IN strictResult(resolvedSteps, extractedValues, result, validationErrors)

(***************************************************************************)
(* src/core/strict-validator.ts                                            *)
(***************************************************************************)
\* a LockedValue
Lock(type, value, isLocked) ==
  [type |-> type, key |-> ToLowerCase(type), value |-> value, isLocked |-> isLocked]

strictForbiddenAdditions ==
  << "await page.waitForTimeout", "await page.waitForSelector", "retry", "try {",
     "catch (", ".reload()", ".goBack()", ".goForward()" >>

\* lockDeviations without the switch on lock.type: only the value itself is looked for
lockDeviationsNoSwitch(lock, generatedCode) ==
  IF ~lock.isLocked \/ lock.value = "" THEN <<>>
  ELSE IF Includes(generatedCode, lock.value) THEN <<>>
  ELSE << "DEVIATION DETECTED: Locked " \o lock.type \o " \"" \o lock.value
            \o "\" not found in generated code" >>

\* the deviations one pass of the loop over the locks pushes
lockDeviations(lock, generatedCode) ==
  LET Deviation(hit, text) == IF hit THEN << text >> ELSE <<>>
  IN IF ~lock.isLocked \/ lock.value = "" THEN <<>>
     ELSE Deviation(~Includes(generatedCode, lock.value),
                    "DEVIATION DETECTED: Locked " \o lock.type \o " \"" \o lock.value
                      \o "\" not found in generated code")
          \o (CASE lock.type = "URL" ->
                     Deviation(Includes(generatedCode, "localhost")
                                 /\ ~Includes(lock.value, "localhost"),
                               "DEVIATION DETECTED: URL replaced with localhost")
                [] lock.type = "SELECTOR" ->
                     Deviation(Includes(generatedCode, "#error") /\ lock.value # "#error",
                               "DEVIATION DETECTED: Selector replaced with generic #error")
                     \o Deviation(Includes(generatedCode, "input[type=\"text\"]")
                                    /\ ~Includes(lock.value, "input[type=\"text\"]"),
                                  "DEVIATION DETECTED: Selector replaced with generic input selector")
                [] lock.type = "VALUE" ->
                     Deviation(Includes(generatedCode, "testuser") /\ lock.value # "testuser",
                               "DEVIATION DETECTED: Value replaced with placeholder \"testuser\"")
                     \o Deviation(Includes(generatedCode, "password123")
                                    /\ lock.value # "password123",
                                  "DEVIATION DETECTED: Value replaced with placeholder \"password123\"")
                [] lock.type = "ASSERTION_TEXT" ->
                     Deviation(Includes(generatedCode, "Error") /\ lock.value # "Error",
                               "DEVIATION DETECTED: Assertion text replaced with generic \"Error\"")
                [] OTHER -> <<>>)

\* the concatenation of f[1], .., f[n]
RECURSIVE Flatten(_, _)
Flatten(f, n) == IF n = 0 THEN <<>> ELSE Flatten(f, n - 1) \o f[n]

\* validateStrictMode with isValid taken from errors, which it never fills
validateStrictModeErrorsOnly(originalLocks, generatedCode) ==
  LET perLock == [i \in 1..Len(originalLocks) |->
                    lockDeviations(originalLocks[i], generatedCode)]
      additions == [i \in 1..Len(strictForbiddenAdditions) |->
                      IF Includes(generatedCode, strictForbiddenAdditions[i])
                        THEN << "DEVIATION DETECTED: Unauthorized addition \""
                                  \o strictForbiddenAdditions[i] \o "\" found in code" >>
                        ELSE <<>>]
      errors == <<>>
  IN [isValid |-> Len(errors) = 0, errors |-> errors,
      deviations |-> Flatten(perLock, Len(perLock)) \o Flatten(additions, Len(additions))]

validateStrictMode(originalLocks, generatedCode) ==
  LET perLock == [i \in 1..Len(originalLocks) |->
                    lockDeviations(originalLocks[i], generatedCode)]
      additions == [i \in 1..Len(strictForbiddenAdditions) |->
                      IF Includes(generatedCode, strictForbiddenAdditions[i])
                        THEN << "DEVIATION DETECTED: Unauthorized addition \""
                                  \o strictForbiddenAdditions[i] \o "\" found in code" >>
                        ELSE <<>>]
      deviations == Flatten(perLock, Len(perLock)) \o Flatten(additions, Len(additions))
  IN [isValid |-> Len(deviations) = 0, errors |-> <<>>, deviations |-> deviations]

lockPattern ==
  RegExp("\\[LOCK\\s+(\\w+)(?:\\s+(\\w+))?\\]\\s*(.+)",
    Cat(<<L("[LOCK"), Sp1, Cap(1, Plus(Cls(WordChars))),
          Opt(Cat(<<Sp1, Cap(2, Plus(Cls(WordChars)))>>)), L("]"), Sp0,
          Cap(3, Plus(AnyChar))>>), FALSE)

\* the while loop over lockPattern.exec, lastIndex = from - 1
RECURSIVE locksFrom(_, _)
locksFrom(testInput, from) ==
  LET match == Exec(lockPattern, testInput, from)
  IN IF ~match.ok THEN <<>>
     ELSE LET type1 == Group(testInput, match, 1)
              type2 == Group(testInput, match, 2)
              type == IF type2 # "" THEN type1 \o "_" \o type2 ELSE type1
          IN << Lock(type, Trim(Group(testInput, match, 3)), TRUE) >>
             \o locksFrom(testInput, match.e)

extractLockedValues(testInput) == locksFrom(testInput, 1)

validateInputCompleteness(locks) ==
  LET perLock == [i \in 1..Len(locks) |->
                    IF locks[i].isLocked
                       /\ (locks[i].value = "" \/ Includes(locks[i].value, "<")
                             \/ Includes(locks[i].value, "TODO"))
                      THEN << "INCOMPLETE: " \o locks[i].type \o " \"" \o locks[i].key
                                \o "\" is not properly specified" >>
                      ELSE <<>>]
      errors == Flatten(perLock, Len(perLock))
  IN [isValid |-> Len(errors) = 0, errors |-> errors, deviations |-> <<>>]

performFinalValidation(originalInstructions, generatedCode, locks) ==
  LET inputValidation == validateInputCompleteness(locks)
      strictValidation == validateStrictMode(locks, generatedCode)
  IN [isValid |-> inputValidation.isValid /\ strictValidation.isValid,
      errors |-> inputValidation.errors \o strictValidation.errors,
      deviations |-> inputValidation.deviations \o strictValidation.deviations]

(***************************************************************************)
(* src/unnamed/part_005: the code generator generateStrictCode imports,    *)
(* whose Playwright renderer checks what it is given and whose             *)
(* generateCode takes the original input as a third argument               *)
(***************************************************************************)
generatePlaywrightLocatorStrict(locator) ==
  CASE locator.type = "label" ->
         IF Has(locator, "value") THEN "label:has-text(\"" \o locator.value \o "\")"
         ELSE "// TODO: Label value not specified"
    [] locator.type = "id" ->
         IF Has(locator, "value") THEN "#" \o locator.value
         ELSE "// TODO: ID value not specified"
    [] locator.type = "role" ->
         IF Has(locator, "role") /\ Has(locator, "name")
           THEN "role=" \o locator.role \o "[name=\"" \o locator.name \o "\"]"
         ELSE "// TODO: Role or name not specified"
    [] locator.type = "text" ->
         IF Has(locator, "value") THEN "text=" \o locator.value
         ELSE "// TODO: Text value not specified"
    [] locator.type = "css" ->
         IF Has(locator, "value") THEN locator.value
         ELSE "// TODO: CSS selector not specified"
    [] locator.type = "xpath" ->
         IF Has(locator, "value") THEN "xpath=" \o locator.value
         ELSE "// TODO: XPath not specified"
    [] OTHER ->
         IF Has(locator, "value") THEN locator.value
         ELSE "// TODO: Locator value not specified"

generatePlaywrightAssertionStrict(step, indent) ==
  LET spaces == Spaces(indent)
      \* the locator text, then the statement unless the text is a // comment
      On(assertion, Statement(_)) ==
        LET Checked(locator) ==
              IF StartsWith(locator, "//") THEN spaces \o locator ELSE Statement(locator)
        IN Checked(IF "locator" \in DOMAIN assertion
                     THEN generatePlaywrightLocatorStrict(assertion.locator)
                     ELSE "// TODO: Assertion locator not specified")
      ContainText(assertion) ==
        LET Statement(locator) ==
              spaces \o "await expect(page.locator('" \o locator \o "')).toContainText('"
                \o assertion.value \o "');"
        IN On(assertion, Statement)
      HaveText(assertion) ==
        LET Statement(locator) ==
              spaces \o "await expect(page.locator('" \o locator \o "')).toHaveText('"
                \o assertion.value \o "');"
        IN On(assertion, Statement)
      HaveValue(assertion) ==
        LET Statement(locator) ==
              spaces \o "await expect(page.locator('" \o locator \o "')).toHaveValue('"
                \o assertion.value \o "');"
        IN On(assertion, Statement)
      Be(assertion, state) ==
        LET Statement(locator) ==
              spaces \o "await expect(page.locator('" \o locator \o "'))." \o state \o "();"
        IN On(assertion, Statement)
      Of(assertion) ==
        CASE assertion.type = "containsText" ->
               IF ~Has(assertion, "value")
                 THEN spaces \o "// TODO: Assertion value not specified"
               ELSE ContainText(assertion)
          [] assertion.type \in {"exactText", "toHaveText"} ->
               IF ~Has(assertion, "value")
                 THEN spaces \o "// TODO: Assertion value not specified"
               ELSE HaveText(assertion)
          [] assertion.type = "visible" -> Be(assertion, "toBeVisible")
          [] assertion.type = "urlContains" ->
               IF ~Has(assertion, "value") THEN spaces \o "// TODO: URL value not specified"
               ELSE spaces \o "await expect(page).toHaveURL(new RegExp('.*" \o assertion.value
                      \o ".*'));"
          [] assertion.type = "hasValue" ->
               IF ~Has(assertion, "value")
                 THEN spaces \o "// TODO: Assertion value not specified"
               ELSE HaveValue(assertion)
          [] assertion.type = "isEnabled" -> Be(assertion, "toBeEnabled")
          [] assertion.type = "isDisabled" -> Be(assertion, "toBeDisabled")
          [] OTHER -> spaces \o "// TODO: Unknown assertion type: " \o assertion.type
  IN IF "assertion" \notin DOMAIN step THEN spaces \o "// TODO: Assertion not specified"
     ELSE Of(step.assertion)

\* index counts from 1 here, from 0 in the source
generatePlaywrightStepStrict(step, indent, includeComments, includeScreenshots, index) ==
  LET spaces == Spaces(indent)
      comment == IF includeComments
                   THEN spaces \o "// Step " \o ToString(index) \o ": " \o step.action \o "\n"
                   ELSE ""
      body ==
        CASE step.action = "goto" ->
               IF ~Has(step, "path") THEN spaces \o "// TODO: URL not specified"
               ELSE spaces \o "await page.goto('" \o step.path \o "');"
          [] step.action = "fill" ->
               IF "locator" \notin DOMAIN step \/ ~Has(step, "text")
                 THEN spaces \o "// TODO: Locator or text not specified"
               ELSE spaces \o "await page.locator('"
                      \o generatePlaywrightLocatorStrict(step.locator)
                      \o "').fill('" \o step.text \o "');"
          [] step.action = "click" ->
               IF "locator" \notin DOMAIN step THEN spaces \o "// TODO: Locator not specified"
               ELSE spaces \o "await page.locator('"
                      \o generatePlaywrightLocatorStrict(step.locator) \o "').click();"
          [] step.action = "assert" -> generatePlaywrightAssertionStrict(step, indent)
          [] OTHER -> spaces \o "// TODO: Unknown action: " \o step.action
      shot == IF includeScreenshots
                THEN "\n" \o spaces \o "await page.screenshot({ path: 'step-"
                       \o ToString(index) \o "-" \o step.action \o ".png' });"
                ELSE ""
  IN comment \o body \o shot

generatePlaywrightCodeStrict(testCase, options) ==
  LET isTypeScript == options.language = "typescript"
      includeComments == options.includeComments
  IN [code |->
        (IF isTypeScript
           THEN "import { test, expect, Page } from '@playwright/test';"
           ELSE "const { test, expect } = require('@playwright/test');")
        \o "\n\n"
        \o (IF includeComments THEN "// Test: " \o Title(testCase) ELSE "") \o "\n"
        \o (IF includeComments THEN "// Base URL: " \o testCase.meta.baseUrl ELSE "") \o "\n"
        \o (IF includeComments /\ "tags" \in DOMAIN testCase.meta
              THEN "// Tags: " \o Join(testCase.meta.tags, ", ") ELSE "")
        \o "\n\n"
        \o (IF isTypeScript
              THEN "test('" \o testCase.meta.name \o "', async ({ page }: { page: Page }) => {"
              ELSE "test('" \o testCase.meta.name \o "', async ({ page }) => {")
        \o "\n"
        \o (IF includeComments THEN "  // Set timeout for the test" ELSE "") \o "\n"
        \o "  test.setTimeout(" \o ToString(options.timeout) \o ");\n"
        \o "  \n"
        \o Join([i \in 1..Len(testCase.steps) |->
                   generatePlaywrightStepStrict(testCase.steps[i], 2, includeComments,
                                                options.includeScreenshots, i)], "\n")
        \o "\n"
        \o "});",
      framework |-> "playwright",
      language |-> options.language]

\* originalInput "" stands for no third argument
generateCodeStrict(testCase, options, originalInput) ==
  LET \* the double check on what was rendered
      DoubleChecked(result, validation) ==
        IF ~validation.isValid /\ Len(validation.deviations) > 0
          THEN Thrown("ERROR: DEVIATION DETECTED\n" \o Join(validation.deviations, "\n"))
        ELSE IF ~validation.isValid /\ Len(validation.errors) > 0
          THEN Thrown("ERROR: VALIDATION FAILED\n" \o Join(validation.errors, "\n"))
        ELSE Returned(result)
      Checked(result) ==
        IF originalInput = "" THEN Returned(result)
        ELSE DoubleChecked(result,
               performFinalValidation(originalInput, result.code,
                                      extractLockedValues(originalInput)))
  IN IF options.framework = "playwright"
       THEN Checked(generatePlaywrightCodeStrict(testCase, options))
     ELSE IF options.framework \notin {"selenium", "cypress"}
       THEN Thrown("Unsupported framework: " \o options.framework)
     ELSE IF \E i \in 1..Len(testCase.steps) : DereferencesUndefined(testCase.steps[i])
       THEN Thrown("Cannot read properties of undefined (reading 'type')")
     ELSE IF options.framework = "selenium"
       THEN Checked(generateSeleniumCode(testCase, options))
     ELSE Checked(generateCypressCode(testCase, options))

(***************************************************************************)
(* src/unnamed/part_004: generateStrictCode                                *)
(***************************************************************************)
parseSelector(selector) ==
  LET rolePattern ==
        RegExp("role=(\\w+)\\[name=\"([^\"]+)\"\\]",
          Cat(<<L("role="), Cap(1, Plus(Cls(WordChars))), L("[name=\""),
                Cap(2, Plus(NotCls({"\""}))), L("\"]")>>), FALSE)
      labelPattern ==
        RegExp("label:has-text\\(\"([^\"]+)\"\\)",
          Cat(<<L("label:has-text(\""), Cap(1, Plus(NotCls({"\""}))), L("\")")>>), FALSE)
      css == [type |-> "css", value |-> selector]
      Role(roleMatch) ==
        IF roleMatch.ok
          THEN [type |-> "role", role |-> Group(selector, roleMatch, 1),
                name |-> Group(selector, roleMatch, 2)]
        ELSE css
      Label(labelMatch) ==
        IF labelMatch.ok THEN [type |-> "label", value |-> Group(selector, labelMatch, 1)]
        ELSE css
  IN IF StartsWith(selector, "#")
       THEN [type |-> "id", value |-> Sub(selector, 2, Len(selector) + 1)]
     ELSE IF StartsWith(selector, ".") THEN css
     ELSE IF Includes(selector, "role=") THEN Role(StrMatch(selector, rolePattern))
     ELSE IF Includes(selector, "label:has-text") THEN Label(StrMatch(selector, labelPattern))
     ELSE IF Includes(selector, "text=")
       THEN [type |-> "text", value |-> RemoveFirst(selector, RegExp("text=", L("text="), FALSE))]
     ELSE css

convertLocksToTestCase(locks, testSteps) ==
  LET \* the steps one pass of the loop over testSteps pushes
      StepFromLocks(testStep) ==
        LET stepText == ToLowerCase(testStep)
            \* locks.find(l => l.key.includes(a) || l.key.includes(b)), <<>> for undefined
            Find(a, b) ==
              SelectSeq(locks, LAMBDA l : Includes(l.key, a) \/ Includes(l.key, b))
            FindBoth(a, b) ==
              SelectSeq(locks, LAMBDA l : Includes(l.key, a) /\ Includes(l.key, b))
            \* found?.value || otherwise
            ValueOr(found, otherwise) ==
              IF found # <<>> /\ found[1].value # "" THEN found[1].value ELSE otherwise
            Located(found) ==
              IF found # <<>> THEN [locator |-> parseSelector(found[1].value)] ELSE EmptyObject
        IN IF Includes(stepText, "navigate")
             THEN << [action |-> "goto",
                      path |-> ValueOr(SelectSeq(locks, LAMBDA l : l.type = "URL"),
                                       "// TODO: URL not specified")] >>
           ELSE IF Includes(stepText, "fill") /\ Includes(stepText, "username")
             THEN << [action |-> "fill",
                      text |-> ValueOr(Find("username", "USERNAME"),
                                       "// TODO: Username value not specified")]
                     @@ Located(FindBoth("selector", "username")) >>
           ELSE IF Includes(stepText, "fill") /\ Includes(stepText, "password")
             THEN << [action |-> "fill",
                      text |-> ValueOr(Find("password", "PASSWORD"),
                                       "// TODO: Password value not specified")]
                     @@ Located(FindBoth("selector", "password")) >>
           ELSE IF Includes(stepText, "click")
             THEN << [action |-> "click"] @@ Located(Find("button", "BUTTON")) >>
           ELSE IF Includes(stepText, "assert")
             THEN << [action |-> "assert",
                      assertion |->
                        [type |-> IF Includes(stepText, "exact text") THEN "toHaveText"
                                  ELSE "containsText",
                         value |-> ValueOr(Find("assertion", "ASSERTION"),
                                           "// TODO: Assertion text not specified")]
                        @@ Located(Find("error", "ERROR"))] >>
           ELSE <<>>
      pushed == [i \in 1..Len(testSteps) |-> StepFromLocks(testSteps[i])]
  IN [meta |-> [name |-> "strict_mode_test",
                baseUrl |-> IF \E i \in 1..Len(locks) : locks[i].type = "URL"
                              THEN SelectSeq(locks, LAMBDA l : l.type = "URL")[1].value
                            ELSE "",
                description |-> "STRICT MODE generated test"],
      steps |-> Flatten(pushed, Len(pushed))]

\* the two returns of a failed validation, without the deviations found
DeviationResultNoDeviations(testSteps, lines, validationResult) ==
  [resolvedSteps |-> testSteps,
   playwrightCode |-> "ERROR: DEVIATION DETECTED\n" \o Join(lines, "\n"),
   validationResult |-> [validationResult EXCEPT !.deviations = <<>>]]

\* the two returns of a failed validation
DeviationResult(testSteps, lines, validationResult) ==
  [resolvedSteps |-> testSteps,
   playwrightCode |-> "ERROR: DEVIATION DETECTED\n" \o Join(lines, "\n"),
   validationResult |-> validationResult]

generateStrictCode(originalInput, testSteps) ==
  LET Final(result, finalValidation) ==
        IF ~finalValidation.isValid
          THEN DeviationResult(testSteps, finalValidation.deviations, finalValidation)
        ELSE [resolvedSteps |-> testSteps,
              playwrightCode |-> result.code,
              validationResult |-> finalValidation]
      Generated(locks, result) ==
        IF result.threw
          THEN [resolvedSteps |-> testSteps,
                playwrightCode |-> "ERROR: " \o result.message,
                validationResult |->
                  [isValid |-> FALSE, errors |-> << result.message >>, deviations |-> <<>>]]
        ELSE Final(result.value,
                   performFinalValidation(originalInput, result.value.code, locks))
      Checked(locks, inputValidation) ==
        IF ~inputValidation.isValid
          THEN DeviationResult(testSteps, inputValidation.errors, inputValidation)
        ELSE Generated(locks,
               generateCodeStrict(convertLocksToTestCase(locks, testSteps),
                                  PlaywrightOptions, originalInput))
      With(locks) == Checked(locks, performFinalValidation(originalInput, "", locks))
  IN With(extractLockedValues(originalInput))

(***************************************************************************)
(* The inputs                                                              *)
(***************************************************************************)
\* src/components/TestGenerator.tsx: the examples offered to the user
examples ==
  << "try to login with username Sam and password sammy",
     "login to https://app.example.com with user Admin and pass admin123, expect dashboard",
     "fill email field with test@example.com and click submit",
     "search for 'laptops' and expect results list",
     "login with wrong password and expect error message" >>

\* how many of the credentials below an instruction draws its X and Y from
NumValues == 3

Credentials == << "Sam", "sammy", "testuser1", "password123", "a.b@c-d" >>

Openers == << "", "try to login with ", "login with " >>

Closers ==
  << "", " and click the login button", ", shows error message then go to the dashboard with success",
     " then retry", " then page.reload()",
     " and expect 'Welcome' and url contains '/home'", " and retry" >>

Used(list, n) == { list[i] : i \in 1..(IF n < Len(list) THEN n ELSE Len(list)) }

Range(f) == { f[i] : i \in DOMAIN f }

\* instructions of the form  <opener>username X and password Y<closer>
Phrased ==
  { o \o "username " \o x \o " and password " \o y \o c :
      o \in Range(Openers), x \in Used(Credentials, NumValues),
      y \in Used(Credentials, NumValues), c \in Range(Closers) }

Instructions == Range(examples) \cup Phrased

\* the longest list of locked values handed to the validator
MaxLocks == 2

LockChoices ==
  << Lock("VALUE", "Sam", TRUE), Lock("VALUE", "password123", TRUE),
     Lock("VALUE", "testuser1", TRUE), Lock("VALUE", "", TRUE),
     Lock("VALUE", "ghost", FALSE) >>

LockLists == UNION { [1..n -> Range(LockChoices)] : n \in 0..MaxLocks }

ValueObjects ==
  {EmptyObject}
  \cup { "username" :> u : u \in {"Sam", "testuser", "testuser1"} }
  \cup { ("username" :> u) @@ ("password" :> q) :
           u \in {"Sam", "testuser", "testuser1"}, q \in {"sammy", "password123"} }

ExtraLines ==
  << "", "\n  await page.waitForTimeout(500);", "\n  page.waitForTimeout(500);",
     "\n  await page.reload();" >>

\* code as the renderer writes it for a login with u and q, then one more line
CodeOf(u, q, extra) ==
  generatePlaywrightStep([action |-> "goto", path |-> "/login"], 2, TRUE, FALSE, 1)
  \o "\n" \o generatePlaywrightStep(FillStep("username", u), 2, TRUE, FALSE, 2)
  \o "\n" \o generatePlaywrightStep(FillStep("password", q), 2, TRUE, FALSE, 3)
  \o extra

Codes ==
  { CodeOf(u, q, extra) :
      u \in {"Sam", "testuser1"}, q \in {"sammy", "password123"}, extra \in Range(ExtraLines) }

\* the longest list of steps handed to a renderer
MaxSteps == 2

\* steps as generateTestCase and convertLocksToTestCase build them, with and
\* without the optional properties of TestStep, and one of no known action
StepChoices ==
  << [action |-> "goto", path |-> "/login"],
     FillStep("username", "Sam"),
     [action |-> "fill", locator |-> [type |-> "id", value |-> "password"], text |-> "sammy"],
     [action |-> "fill", text |-> "Sam"],
     [action |-> "click", locator |-> [type |-> "role", role |-> "button", name |-> "Login"]],
     [action |-> "click", locator |-> [type |-> "role", role |-> "button"]],
     [action |-> "click", locator |-> [type |-> "text", value |-> "Sign in"]],
     [action |-> "click", locator |-> [type |-> "css", value |-> ".btn-primary"]],
     [action |-> "click"],
     [action |-> "assert", assertion |-> [type |-> "containsText", value |-> "Welcome"]],
     [action |-> "assert", assertion |-> [type |-> "toHaveText", value |-> "Welcome"]],
     [action |-> "assert"],
     [action |-> "hover"] >>

TestCases ==
  { [meta |-> [name |-> "login_test", baseUrl |-> "https://example.com",
               description |-> "Login test", tags |-> <<"authentication">>],
     steps |-> steps] :
      steps \in UNION { [1..n -> Range(StepChoices)] : n \in 0..MaxSteps } }

OptionChoices ==
  << PlaywrightOptions,
     [framework |-> "playwright", language |-> "javascript", includeComments |-> FALSE,
      includeScreenshots |-> TRUE, timeout |-> 30000],
     [framework |-> "selenium", language |-> "python", includeComments |-> TRUE,
      includeScreenshots |-> FALSE, timeout |-> 30000],
     [framework |-> "selenium", language |-> "java", includeComments |-> TRUE,
      includeScreenshots |-> FALSE, timeout |-> 30000],
     [framework |-> "cypress", language |-> "javascript", includeComments |-> TRUE,
      includeScreenshots |-> FALSE, timeout |-> 30000],
     [framework |-> "puppeteer", language |-> "javascript", includeComments |-> TRUE,
      includeScreenshots |-> FALSE, timeout |-> 30000] >>

\* original inputs of generateStrictCode, with and without [LOCK ..] lines
StrictInputs ==
  << "", "login as Sam", "[LOCK URL] https://example.com", "[LOCK URL] ",
     "[LOCK VALUE username] Sam", "[LOCK VALUE password] <password>",
     "[LOCK URL] https://example.com\n[LOCK VALUE username] Sam",
     "[LOCK SELECTOR username] #user then retry" >>

TestStepChoices ==
  << "Navigate to the login page", "Fill username field", "Fill password field",
     "Click login button", "Assert exact text of the error", "Assert error contains text",
     "Wait for the page" >>

StrictCalls ==
  [originalInput : Range(StrictInputs),
   testSteps : UNION { [1..n -> Range(TestStepChoices)] : n \in 0..MaxSteps }]

(***************************************************************************)
(* The state: one request going through generateFromPlainEnglish (or       *)
(* through generateTestCase alone), one validation call, one call of       *)
(* execute, and one TestDataManager                                        *)
(***************************************************************************)
VARIABLES
  request,     \* [plainEnglish, baseUrl]: the arguments of the call
  pc,          \* where the call is
  values,      \* extractedValues
  checklist,   \* resolvedSteps
  resolved,    \* testCase
  strict,      \* strictTestCase
  rendered,    \* what generateCode returned or threw
  selfErrors,  \* validationErrors
  response,    \* the UniversalStrictResult returned
  legacy,      \* the steps the first parseAssertions of dsl-generator.ts pushes
  audit,       \* [locks, code, values]: the arguments of a validator call
  vpc,         \* which validator was called
  verdict,     \* what it returned
  job,         \* [executor, options, testCase]: one call of execute
  epc,         \* where the call of execute is
  stepResults, \* stepResults
  currentUrl,  \* currentUrl
  cursor,      \* i, the index of the loop over testCase.steps
  net,         \* the fetch and the timer of the executeGoto in flight, or of the last one
  attempts,    \* the step indices handed to executeStep (or simulated), in order
  visited,     \* [stepIndex, targetUrl] of every executeGoto, in order
  outcome,     \* the TestResult returned
  manager,     \* the config of a TestDataManager
  asked        \* the results of the calls made on the manager in its current state

pipelineVars == << request, pc, values, checklist, resolved, strict, rendered, selfErrors,
                   response, legacy >>

validatorVars == << audit, vpc, verdict >>

executorVars == << job, epc, stepResults, currentUrl, cursor, net, attempts, visited, outcome >>

managerVars == << manager, asked >>

vars == << request, pc, values, checklist, resolved, strict, rendered, selfErrors, response,
           legacy, audit, vpc, verdict, job, epc, stepResults, currentUrl, cursor, net,
           attempts, visited, outcome, manager, asked >>

None == <<>>

NoLocals ==
  /\ values = EmptyObject
  /\ checklist = None
  /\ resolved = None
  /\ strict = None
  /\ rendered = None
  /\ selfErrors = None
  /\ response = None
  /\ legacy = None

\* no call of execute is made
ExecutorIdle ==
  /\ job = None
  /\ epc = "off"
  /\ stepResults = <<>>
  /\ currentUrl = ""
  /\ cursor = 0
  /\ net = None
  /\ attempts = <<>>
  /\ visited = <<>>
  /\ outcome = None

\* no TestDataManager is constructed
ManagerIdle ==
  /\ manager = None
  /\ asked = None

Init ==
  /\ request \in [plainEnglish : Instructions, baseUrl : {"https://example.com"}]
  /\ pc = "start"
  /\ NoLocals
  /\ audit = [locks |-> <<>>, code |-> "", values |-> EmptyObject]
  /\ vpc = "off"
  /\ verdict = None
  /\ ExecutorIdle
  /\ ManagerIdle

\* Step 1: Extract all values from plain English
Step1 ==
  /\ pc = "start"
  /\ values' = extractAllValues(request.plainEnglish)
  /\ pc' = "extracted"
  /\ UNCHANGED << request, checklist, resolved, strict, rendered, selfErrors, response, legacy >>
  /\ UNCHANGED validatorVars
  /\ UNCHANGED << executorVars, managerVars >>

\* Step 2: Parse into resolved steps
Step2 ==
  /\ pc = "extracted"
  /\ checklist' = parseToResolvedSteps(request.plainEnglish, values)
  /\ pc' = "listed"
  /\ UNCHANGED << request, values, resolved, strict, rendered, selfErrors, response, legacy >>
  /\ UNCHANGED validatorVars
  /\ UNCHANGED << executorVars, managerVars >>

\* Step 3: Generate TestCase
Step3 ==
  /\ pc = "listed"
  /\ resolved' = generateTestCase(request.plainEnglish, request.baseUrl, DefaultOptions)
  /\ pc' = "resolved"
  /\ UNCHANGED << request, values, checklist, strict, rendered, selfErrors, response, legacy >>
  /\ UNCHANGED validatorVars
  /\ UNCHANGED << executorVars, managerVars >>

\* Step 4: Apply STRICT MODE enhancements
Step4 ==
  /\ pc = "resolved"
  /\ strict' = enhanceWithStrictMode(resolved, values, request.plainEnglish)
  /\ pc' = "enhanced"
  /\ UNCHANGED << request, values, checklist, resolved, rendered, selfErrors, response, legacy >>
  /\ UNCHANGED validatorVars
  /\ UNCHANGED << executorVars, managerVars >>

\* Step 5: Generate Playwright code, inside the try
Step5 ==
  /\ pc = "enhanced"
  /\ rendered' = generateCode(strict, PlaywrightOptions)
  /\ pc' = IF rendered'.threw THEN "caught" ELSE "rendered"
  /\ UNCHANGED << request, values, checklist, resolved, strict, selfErrors, response, legacy >>
  /\ UNCHANGED validatorVars
  /\ UNCHANGED << executorVars, managerVars >>

\* Step 6: Self-validation
Step6 ==
  /\ pc = "rendered"
  /\ selfErrors' = performSelfValidation(request.plainEnglish, rendered.value.code, values)
  /\ pc' = "validated"
  /\ UNCHANGED << request, values, checklist, resolved, strict, rendered, response, legacy >>
  /\ UNCHANGED validatorVars
  /\ UNCHANGED << executorVars, managerVars >>

\* the return statements of generateFromPlainEnglish
Return ==
  /\ pc \in {"validated", "caught"}
  /\ response' = strictResult(checklist, values, rendered,
                              IF pc = "validated" THEN selfErrors ELSE <<>>)
  /\ pc' = "returned"
  /\ UNCHANGED << request, values, checklist, resolved, strict, rendered, selfErrors, legacy >>
  /\ UNCHANGED validatorVars
  /\ UNCHANGED << executorVars, managerVars >>

\* generateTestCase called on its own (the JSON DSL generator page)
handleGenerate ==
  /\ pc = "start"
  /\ Trim(request.plainEnglish) # "" /\ Trim(request.baseUrl) # ""
  /\ resolved' = generateTestCase(request.plainEnglish, request.baseUrl, DefaultOptions)
  /\ pc' = "dsl"
  /\ UNCHANGED << request, values, checklist, strict, rendered, selfErrors, response, legacy >>
  /\ UNCHANGED validatorVars
  /\ UNCHANGED << executorVars, managerVars >>

\* the first parseAssertions of dsl-generator.ts on the lowered description
legacyHandleGenerate ==
  /\ pc = "start"
  /\ legacy' = legacyParseAssertions(ToLowerCase(request.plainEnglish), <<>>)
  /\ pc' = "legacy"
  /\ UNCHANGED << request, values, checklist, resolved, strict, rendered, selfErrors,
                  response >>
  /\ UNCHANGED validatorVars
  /\ UNCHANGED << executorVars, managerVars >>

Next ==
  \/ Step1
  \/ Step2
  \/ Step3
  \/ Step4
  \/ Step5
  \/ Step6
  \/ Return
  \/ handleGenerate
  \/ legacyHandleGenerate

Spec == Init /\ [][Next]_vars

(***************************************************************************)
(* The validators, each applied to locked or extracted values and code     *)
(***************************************************************************)
ValidatorInit ==
  /\ request = [plainEnglish |-> examples[1], baseUrl |-> "https://example.com"]
  /\ pc = "off"
  /\ NoLocals
  /\ \/ audit \in [locks : LockLists, code : Codes, values : {EmptyObject}]
     \/ audit \in [locks : {<<>>}, code : Codes, values : ValueObjects]
  /\ vpc = "start"
  /\ verdict = None
  /\ ExecutorIdle
  /\ ManagerIdle

CallValidateStrictMode ==
  /\ vpc = "start"
  /\ verdict' = validateStrictMode(audit.locks, audit.code)
  /\ vpc' = "validateStrictMode"
  /\ UNCHANGED audit
  /\ UNCHANGED pipelineVars
  /\ UNCHANGED << executorVars, managerVars >>

CallValidateInputCompleteness ==
  /\ vpc = "start"
  /\ verdict' = validateInputCompleteness(audit.locks)
  /\ vpc' = "validateInputCompleteness"
  /\ UNCHANGED audit
  /\ UNCHANGED pipelineVars
  /\ UNCHANGED << executorVars, managerVars >>

CallPerformFinalValidation ==
  /\ vpc = "start"
  /\ verdict' = performFinalValidation("", audit.code, audit.locks)
  /\ vpc' = "performFinalValidation"
  /\ UNCHANGED audit
  /\ UNCHANGED pipelineVars
  /\ UNCHANGED << executorVars, managerVars >>

CallPerformSelfValidation ==
  /\ vpc = "start"
  /\ verdict' = [errors |-> performSelfValidation("", audit.code, audit.values)]
  /\ vpc' = "performSelfValidation"
  /\ UNCHANGED audit
  /\ UNCHANGED pipelineVars
  /\ UNCHANGED << executorVars, managerVars >>

ValidatorNext ==
  \/ CallValidateStrictMode
  \/ CallValidateInputCompleteness
  \/ CallPerformFinalValidation
  \/ CallPerformSelfValidation

ValidatorSpec == ValidatorInit /\ [][ValidatorNext]_vars

(***************************************************************************)
(* The renderers, each applied to a TestCase and its options               *)
(***************************************************************************)
RendererInit ==
  /\ request = [plainEnglish |-> examples[1], baseUrl |-> "https://example.com"]
  /\ pc = "off"
  /\ NoLocals
  /\ \/ audit \in [testCase : TestCases, options : Range(OptionChoices)]
     \/ audit \in StrictCalls
  /\ vpc = "start"
  /\ verdict = None
  /\ ExecutorIdle
  /\ ManagerIdle

CallGenerateCode ==
  /\ vpc = "start"
  /\ "testCase" \in DOMAIN audit
  /\ verdict' = generateCode(audit.testCase, audit.options)
  /\ vpc' = "generateCode"
  /\ UNCHANGED audit
  /\ UNCHANGED pipelineVars
  /\ UNCHANGED << executorVars, managerVars >>

\* generateCode of src/unnamed/part_005, called without the original input
CallGenerateCodeStrict ==
  /\ vpc = "start"
  /\ "testCase" \in DOMAIN audit
  /\ verdict' = generateCodeStrict(audit.testCase, audit.options, "")
  /\ vpc' = "generateCodeStrict"
  /\ UNCHANGED audit
  /\ UNCHANGED pipelineVars
  /\ UNCHANGED << executorVars, managerVars >>

CallGenerateStrictCode ==
  /\ vpc = "start"
  /\ "originalInput" \in DOMAIN audit
  /\ verdict' = generateStrictCode(audit.originalInput, audit.testSteps)
  /\ vpc' = "generateStrictCode"
  /\ UNCHANGED audit
  /\ UNCHANGED pipelineVars
  /\ UNCHANGED << executorVars, managerVars >>

RendererNext ==
  \/ CallGenerateCode
  \/ CallGenerateCodeStrict
  \/ CallGenerateStrictCode

RendererSpec == RendererInit /\ [][RendererNext]_vars

(***************************************************************************)
(* test-data-manager.ts: RealUrlExecutor and MockTestExecutor.  The        *)
(* message and duration of a result are left out; error is "" where the    *)
(* code leaves it undefined.                                               *)
(***************************************************************************)
Success == [success |-> TRUE, error |-> ""]

Failure(error) == [success |-> FALSE, error |-> error]

\* this.timeout = options.timeout || 30000
timeoutOf(options) ==
  IF "timeout" \in DOMAIN options /\ options.timeout # 0 THEN options.timeout ELSE 30000

convertLocatorToSelector(locator) ==
  CASE locator.type = "label" ->
         "label:contains(\"" \o Interp(locator, "value") \o "\"), [aria-label*=\""
         \o Interp(locator, "value") \o "\"], [placeholder*=\"" \o Interp(locator, "value") \o "\"]"
    [] locator.type = "id" -> "#" \o Interp(locator, "value")
    [] locator.type = "role" ->
         IF Has(locator, "role") /\ Has(locator, "name")
           THEN "[role=\"" \o locator.role \o "\"][aria-label*=\"" \o locator.name
                \o "\"], [role=\"" \o locator.role \o "\"]:contains(\"" \o locator.name \o "\")"
           ELSE "[role=\"" \o Interp(locator, "role") \o "\"]"
    [] locator.type = "text" -> ":contains(\"" \o Interp(locator, "value") \o "\")"
    [] OTHER -> IF Has(locator, "value") THEN locator.value ELSE "body"

\* what document.querySelector and the page give a step: an element of the
\* kind the step needs ("match"), another element ("other"), or no element
Elements == {"match", "other", "null"}

\* executeStep for the steps that do not navigate; element is what the page holds
executeStep(step, element) ==
  LET executeFill ==
        IF "locator" \notin DOMAIN step \/ ~Has(step, "text")
          THEN Failure("Missing locator or text for fill action")
          ELSE IF element = "null"
            THEN Failure("Element not found: " \o convertLocatorToSelector(step.locator))
            ELSE IF element = "match" THEN Success
            ELSE Failure("Element is not an input or textarea")
      executeClick ==
        IF "locator" \notin DOMAIN step
          THEN Failure("Missing locator for click action")
          ELSE IF element = "null"
            THEN Failure("Element not found: " \o convertLocatorToSelector(step.locator))
            ELSE IF element = "match" THEN Success
            ELSE Failure("Element is not clickable")
      SelectorOf(assertion) ==
        IF "locator" \in DOMAIN assertion
          THEN convertLocatorToSelector(assertion.locator) ELSE "body"
      AssertionResult(assertion) ==
        CASE assertion.type = "containsText" ->
               IF ~Has(assertion, "value") THEN Failure("Missing expected text for assertion")
               ELSE IF element = "null"
                 THEN Failure("Element not found for assertion: " \o SelectorOf(assertion))
                 ELSE IF element = "match" THEN Success
                 ELSE Failure("Expected text \"" \o assertion.value \o "\" not found")
          [] assertion.type = "urlContains" ->
               IF ~Has(assertion, "value") THEN Failure("Missing expected URL for assertion")
               ELSE IF element = "match" THEN Success
               ELSE Failure("URL does not contain expected text: " \o assertion.value)
          [] assertion.type = "visible" ->
               IF element = "null"
                 THEN Failure("Element not found for visibility check: " \o SelectorOf(assertion))
                 ELSE IF element = "match" THEN Success
                 ELSE Failure("Element is not visible")
          [] OTHER -> Failure("Unsupported assertion type: " \o assertion.type)
      executeAssert ==
        IF "assertion" \notin DOMAIN step
          THEN Failure("Missing assertion for assert action")
          ELSE AssertionResult(step.assertion)
  IN CASE step.action = "fill" -> executeFill
       [] step.action = "click" -> executeClick
       [] step.action = "assert" -> executeAssert
       [] OTHER -> Failure("Unsupported action type: " \o step.action)

\* targetUrl of executeGoto; its baseUrl parameter is what execute passes
targetUrlOf(step, baseUrl) ==
  IF Has(step, "path") /\ StartsWith(step.path, "http")
    THEN step.path
    ELSE baseUrl \o (IF Has(step, "path") THEN step.path ELSE "/")

\* a timer left as it is, where the code clears it
leaveTimeout(timer) == timer

\* clearTimeout(timeoutId): a timer that has not fired never will
clearTimeout(timer) == IF timer = "armed" THEN "cleared" ELSE timer

\* the catch of executeGoto for an AbortError
timeoutFailure(timeout) == Failure("Timeout after " \o ToString(timeout) \o "ms")

\* every step reported as passed
stepResultPassed(step, i, result) ==
  [stepIndex |-> i, action |-> step.action, status |-> "passed", error |-> result.error]

\* the StepResult execute pushes for step i
stepResultOf(step, i, result) ==
  [stepIndex |-> i, action |-> step.action,
   status |-> IF result.success THEN "passed" ELSE "failed", error |-> result.error]

\* the loop index stays where it is
sameStep(i) == i

\* i++ of the loops over testCase.steps
nextStep(i) == i + 1

\* currentUrl after step has passed
urlAfter(step, baseUrl, url) ==
  IF step.action = "goto" /\ Has(step, "path")
    THEN IF StartsWith(step.path, "http") THEN step.path ELSE baseUrl \o step.path
    ELSE url

\* MockTestExecutor.validateTestCase: its errors
validateTestCase(testCase) ==
  LET StepErrors(index) ==
        LET step == testCase.steps[index]
            At1 == "Step " \o ToString(index)
        IN (IF ~Has(step, "action") THEN << At1 \o " must have an action" >> ELSE <<>>)
           \o (CASE step.action = "fill" ->
                      IF "locator" \notin DOMAIN step \/ ~Has(step, "text")
                        THEN << At1 \o ": Fill action requires locator and text" >> ELSE <<>>
                 [] step.action = "click" ->
                      IF "locator" \notin DOMAIN step
                        THEN << At1 \o ": Click action requires locator" >> ELSE <<>>
                 [] step.action = "assert" ->
                      IF "assertion" \notin DOMAIN step
                        THEN << At1 \o ": Assert action requires assertion" >> ELSE <<>>
                 [] OTHER -> <<>>)
  IN (IF ~Has(testCase.meta, "name") THEN << "Test case must have a name" >> ELSE <<>>)
     \o (IF ~Has(testCase.meta, "baseUrl") THEN << "Test case must have a base URL" >> ELSE <<>>)
     \o (IF Len(testCase.steps) = 0
           THEN << "Test case must have at least one step" >> ELSE <<>>)
     \o Flatten([index \in 1..Len(testCase.steps) |-> StepErrors(index)], Len(testCase.steps))

\* the errors generateMockError picks from
mockErrors ==
  << "Element not found: Could not locate element with selector",
     "Timeout: Element was not visible within timeout period",
     "Navigation failed: Page did not load within timeout",
     "Assertion failed: Expected text was not found",
     "Element not clickable: Element is obscured by another element" >>

\* steps handed to an executor: relative and absolute gotos, steps with and
\* without what they need, and one of no known action
RunSteps ==
  << [action |-> "goto", path |-> "/login"],
     [action |-> "goto", path |-> "/dashboard"],
     [action |-> "goto", path |-> "https://other.example.com/start"],
     FillStep("username", "Sam"),
     [action |-> "fill", locator |-> [type |-> "id", value |-> "password"]],
     [action |-> "click", locator |-> [type |-> "role", role |-> "button", name |-> "Login"]],
     [action |-> "assert", assertion |-> [type |-> "containsText", value |-> "Welcome"]],
     [action |-> "hover"] >>

\* ExecutionOptions with and without a timeout, asking for retries or not
RunOptions == << [timeout |-> 5000, retryCount |-> 3], [retryCount |-> 0] >>

Jobs ==
  [executor : {"RealUrlExecutor", "MockTestExecutor"},
   options : Range(RunOptions),
   testCase : { [meta |-> [name |-> "login_test", baseUrl |-> "https://example.com "],
                 steps |-> steps] :
                  steps \in UNION { [1..n -> Range(RunSteps)] : n \in 0..MaxSteps } }]

(***************************************************************************)
(* One call of execute, step by step: every await is a place where the     *)
(* page, the network or a timer decides what happens next                  *)
(***************************************************************************)
ExecutorInit ==
  /\ request = [plainEnglish |-> examples[1], baseUrl |-> "https://example.com"]
  /\ pc = "off"
  /\ NoLocals
  /\ audit = [locks |-> <<>>, code |-> "", values |-> EmptyObject]
  /\ vpc = "off"
  /\ verdict = None
  /\ job \in Jobs
  /\ epc = "start"
  /\ stepResults = <<>>
  /\ currentUrl = ""
  /\ cursor = 0
  /\ net = None
  /\ attempts = <<>>
  /\ visited = <<>>
  /\ outcome = None
  /\ ManagerIdle

\* RealUrlExecutor.execute up to its loop
Execute ==
  /\ epc = "start"
  /\ job.executor = "RealUrlExecutor"
  /\ currentUrl' = Trim(job.testCase.meta.baseUrl)
  /\ epc' = "loop"
  /\ UNCHANGED << job, stepResults, cursor, net, attempts, visited, outcome >>
  /\ UNCHANGED << pipelineVars, validatorVars, managerVars >>

\* the rest of one turn of the loop of RealUrlExecutor.execute, once executeStep
\* has given result
Settle(result) ==
  /\ stepResults' = Append(stepResults,
                           stepResultOf(job.testCase.steps[cursor + 1], cursor, result))
  /\ IF ~result.success
       THEN /\ outcome' = [status |-> "failed", error |-> result.error,
                           stepResults |-> stepResults']
            /\ epc' = "returned"
            /\ UNCHANGED << currentUrl, cursor >>
       ELSE /\ currentUrl' = urlAfter(job.testCase.steps[cursor + 1],
                                      Trim(job.testCase.meta.baseUrl), currentUrl)
            /\ cursor' = nextStep(cursor)
            /\ epc' = "loop"
            /\ UNCHANGED outcome

\* a turn of the loop for a fill, click, assert or unknown step.  executeFill,
\* executeClick and executeAssert catch what the page throws and return a
\* failure, so the catch around executeStep is not entered
ExecuteStep ==
  /\ epc = "loop"
  /\ job.executor = "RealUrlExecutor"
  /\ cursor < Len(job.testCase.steps)
  /\ job.testCase.steps[cursor + 1].action # "goto"
  /\ attempts' = Append(attempts, cursor)
  /\ \E element \in Elements : Settle(executeStep(job.testCase.steps[cursor + 1], element))
  /\ UNCHANGED << job, net, visited >>
  /\ UNCHANGED << pipelineVars, validatorVars, managerVars >>

\* a turn of the loop for a goto step, up to await fetch(..)
ExecuteGoto ==
  /\ epc = "loop"
  /\ job.executor = "RealUrlExecutor"
  /\ cursor < Len(job.testCase.steps)
  /\ job.testCase.steps[cursor + 1].action = "goto"
  /\ attempts' = Append(attempts, cursor)
  /\ visited' = Append(visited,
                       [stepIndex |-> cursor,
                        targetUrl |-> targetUrlOf(job.testCase.steps[cursor + 1], currentUrl)])
  /\ net' = [stepIndex |-> cursor, timer |-> "armed", fetch |-> "pending",
             aborted |-> FALSE, windowOpened |-> FALSE]
  /\ epc' = "fetching"
  /\ UNCHANGED << job, stepResults, currentUrl, cursor, outcome >>
  /\ UNCHANGED << pipelineVars, validatorVars, managerVars >>

\* the fetch resolves: the rest of the inner try
FetchResolves ==
  /\ epc = "fetching"
  /\ net.fetch = "pending"
  /\ net' = [net EXCEPT !.fetch = "resolved", !.timer = clearTimeout(net.timer)]
  /\ Settle(Success)
  /\ UNCHANGED << job, attempts, visited >>
  /\ UNCHANGED << pipelineVars, validatorVars, managerVars >>

\* the fetch rejects with an error of the network: the catch, and window.open
FetchRejects ==
  /\ epc = "fetching"
  /\ net.fetch = "pending"
  /\ net' = [net EXCEPT !.fetch = "rejected", !.timer = clearTimeout(net.timer),
                        !.windowOpened = TRUE]
  /\ \E testWindow \in {"window", "null", "throws"} :
       Settle(CASE testWindow = "window" -> Success
                [] testWindow = "null" -> Failure("URL not accessible")
                [] OTHER -> Failure("Navigation error: Failed to fetch"))
  /\ UNCHANGED << job, attempts, visited >>
  /\ UNCHANGED << pipelineVars, validatorVars, managerVars >>

\* the timer set by setTimeout(() => controller.abort(), this.timeout) fires
TimerFires ==
  /\ net # None
  /\ net.timer = "armed"
  /\ net' = [net EXCEPT !.timer = "fired", !.aborted = TRUE,
                        !.fetch = IF net.fetch = "pending" THEN "aborted" ELSE net.fetch]
  /\ UNCHANGED << job, epc, stepResults, currentUrl, cursor, attempts, visited, outcome >>
  /\ UNCHANGED << pipelineVars, validatorVars, managerVars >>

\* the aborted fetch rejects with an AbortError: the catch
FetchAborted ==
  /\ epc = "fetching"
  /\ net.fetch = "aborted"
  /\ net' = [net EXCEPT !.timer = clearTimeout(net.timer)]
  /\ Settle(timeoutFailure(timeoutOf(job.options)))
  /\ UNCHANGED << job, attempts, visited >>
  /\ UNCHANGED << pipelineVars, validatorVars, managerVars >>

\* the return after the loop, of either executor
ReturnPassed ==
  /\ epc = "loop"
  /\ cursor = Len(job.testCase.steps)
  /\ outcome' = [status |-> "passed", error |-> "", stepResults |-> stepResults]
  /\ epc' = "returned"
  /\ UNCHANGED << job, stepResults, currentUrl, cursor, net, attempts, visited >>
  /\ UNCHANGED << pipelineVars, validatorVars, managerVars >>

\* MockTestExecutor.execute up to its loop
MockExecute ==
  /\ epc = "start"
  /\ job.executor = "MockTestExecutor"
  /\ IF validateTestCase(job.testCase) # <<>>
       THEN /\ outcome' = [status |-> "failed",
                           error |-> Join(validateTestCase(job.testCase), ", ")]
            /\ epc' = "returned"
       ELSE /\ epc' = "loop"
            /\ UNCHANGED outcome
  /\ UNCHANGED << job, stepResults, currentUrl, cursor, net, attempts, visited >>
  /\ UNCHANGED << pipelineVars, validatorVars, managerVars >>

\* a turn of the loop of MockTestExecutor.execute
MockStep ==
  /\ epc = "loop"
  /\ job.executor = "MockTestExecutor"
  /\ cursor < Len(job.testCase.steps)
  /\ attempts' = Append(attempts, cursor)
  /\ \E shouldFail \in BOOLEAN, error \in Range(mockErrors) :
       /\ stepResults' =
            Append(stepResults,
                   stepResultOf(job.testCase.steps[cursor + 1], cursor,
                                IF shouldFail THEN Failure(error) ELSE Success))
       /\ IF shouldFail
            THEN /\ outcome' = [status |-> "failed", error |-> error,
                                stepResults |-> stepResults']
                 /\ epc' = "returned"
                 /\ UNCHANGED cursor
            ELSE /\ cursor' = nextStep(cursor)
                 /\ epc' = "loop"
                 /\ UNCHANGED outcome
  /\ UNCHANGED << job, currentUrl, net, visited >>
  /\ UNCHANGED << pipelineVars, validatorVars, managerVars >>

ExecutorNext ==
  \/ Execute
  \/ ExecuteStep
  \/ ExecuteGoto
  \/ FetchResolves
  \/ FetchRejects
  \/ TimerFires
  \/ FetchAborted
  \/ ReturnPassed
  \/ MockExecute
  \/ MockStep

ExecutorSpec == ExecutorInit /\ [][ExecutorNext]_vars

(***************************************************************************)
(* One call of either kind: a request going through the generator, or a    *)
(* TestCase going through an executor                                      *)
(***************************************************************************)
CallInit == Init \/ ExecutorInit

CallNext == Next \/ ExecutorNext

CallSpec == CallInit /\ [][CallNext]_vars

(***************************************************************************)
(* test-data-manager.ts: TestDataManager.  A Record<string, string> is the *)
(* list of its << key, value >> entries in insertion order                 *)
(***************************************************************************)
KeysOf(object) == { object[n][1] : n \in 1..Len(object) }

\* this.config.datasets.find(ds => ds.isValid)?.data || {}
getValidData(config) ==
  LET Found == { n \in 1..Len(config.datasets) : config.datasets[n].isValid }
  IN IF Found = {} THEN <<>>
     ELSE config.datasets[CHOOSE n \in Found : \A m \in Found : n <= m].data

\* this.config.datasets.find(ds => !ds.isValid)?.data || {}
getInvalidData(config) ==
  LET Found == { n \in 1..Len(config.datasets) : ~config.datasets[n].isValid }
  IN IF Found = {} THEN <<>>
     ELSE config.datasets[CHOOSE n \in Found : \A m \in Found : n <= m].data

\* result.replace(new RegExp(placeholder, 'g'), value) from position from on,
\* for a placeholder of letters, digits after a letter, and underscores
\* between its braces and a value without '$'
RECURSIVE ReplaceAll(_, _, _, _)
ReplaceAll(result, from, placeholder, value) ==
  IF from + Len(placeholder) > Len(result) + 1 THEN Sub(result, from, Len(result) + 1)
  ELSE IF Sub(result, from, from + Len(placeholder)) = placeholder
    THEN value \o ReplaceAll(result, from + Len(placeholder), placeholder, value)
  ELSE Sub(result, from, from + 1) \o ReplaceAll(result, from + 1, placeholder, value)

\* Object.entries(..).forEach(([key, value]) => ..) from entry n on
RECURSIVE replaceEntries(_, _, _)
replaceEntries(result, object, n) ==
  IF n > Len(object) THEN result
  ELSE replaceEntries(
         ReplaceAll(result, 1, "{{" \o ToUpperCase(object[n][1]) \o "}}", object[n][2]),
         object, n + 1)

replacePlaceholders(config, text, dataType) ==
  replaceEntries(
    replaceEntries(text,
                   IF "globalVariables" \in DOMAIN config THEN config.globalVariables ELSE <<>>,
                   1),
    IF dataType = "valid" THEN getValidData(config) ELSE getInvalidData(config), 1)

addTestDataSet(config, dataset) == [config EXCEPT !.datasets = Append(@, dataset)]

setBaseUrl(config, url) == [config EXCEPT !.baseUrl = url]

placeholderPattern ==
  RegExp("\\{\\{([^}]+)\\}\\}", Cat(<<L("{{"), Cap(1, Plus(NotCls({"}"}))), L("}}")>>), FALSE)

\* [...testCaseText.matchAll(placeholderPattern)].map(match => match[1])
RECURSIVE placeholdersFrom(_, _)
placeholdersFrom(testCaseText, from) ==
  LET Rest(match) ==
        IF ~match.ok THEN <<>>
        ELSE << Group(testCaseText, match, 1) >> \o placeholdersFrom(testCaseText, match.e)
  IN Rest(Exec(placeholderPattern, testCaseText, from))

validateTestData(config, testCaseText) ==
  LET allData ==
        KeysOf(getValidData(config)) \cup KeysOf(getInvalidData(config))
        \cup (IF "globalVariables" \in DOMAIN config THEN KeysOf(config.globalVariables)
              ELSE {})
      missingFields ==
        SelectSeq(placeholdersFrom(testCaseText, 1),
                  LAMBDA placeholder :
                    /\ ToLowerCase(placeholder) \notin allData
                    /\ ToUpperCase(placeholder) \notin allData)
  IN [isValid |-> Len(missingFields) = 0, missingFields |-> missingFields]

\* the most datasets a manager holds
MaxDatasets == 3

\* datasets after those of createDefaultTestDataManager
DataSets ==
  << [name |-> "valid_user_data", data |-> << <<"test_username", "testuser">>,
                                              <<"test_password", "TestPass123!">> >>,
      isValid |-> TRUE],
     [name |-> "invalid_user_data", data |-> << <<"invalid_username", "invalid_user">>,
                                                <<"invalid_name", "">> >>,
      isValid |-> FALSE],
     [name |-> "admin_data", data |-> << <<"admin_name", "root">> >>, isValid |-> TRUE] >>

\* the configs a manager is constructed with: that of
\* createDefaultTestDataManager, cut down to two fields a dataset, and one
\* without datasets or globalVariables
Configs ==
  { [baseUrl |-> "https://example.com", datasets |-> << DataSets[1], DataSets[2] >>,
     globalVariables |-> << <<"base_url", "https://example.com">> >>],
    [baseUrl |-> "https://example.com", datasets |-> <<>>] }

BaseUrls == << "https://example.com", "https://staging.example.com" >>

Texts ==
  << "open {{BASE_URL}}/login", "fill {{TEST_USERNAME}} and {{TEST_PASSWORD}}",
     "fill {{test_username}}", "fill {{INVALID_USERNAME}}", "fill {{ADMIN_NAME}}",
     "fill {{EMAIL}} of {{TEST_USERNAME}}", "click the login button" >>

(***************************************************************************)
(* A TestDataManager and the calls made on it                              *)
(***************************************************************************)
NothingAsked == [text |-> "", validation |-> <<>>, replaced |-> <<>>]

ManagerInit ==
  /\ request = [plainEnglish |-> examples[1], baseUrl |-> "https://example.com"]
  /\ pc = "off"
  /\ NoLocals
  /\ audit = [locks |-> <<>>, code |-> "", values |-> EmptyObject]
  /\ vpc = "off"
  /\ verdict = None
  /\ ExecutorIdle
  /\ manager \in Configs
  /\ asked = NothingAsked

CallAddTestDataSet ==
  /\ manager # None
  /\ Len(manager.datasets) < MaxDatasets
  /\ \E dataset \in Range(DataSets) : manager' = addTestDataSet(manager, dataset)
  /\ asked' = NothingAsked
  /\ UNCHANGED << pipelineVars, validatorVars, executorVars >>

CallSetBaseUrl ==
  /\ manager # None
  /\ \E url \in Range(BaseUrls) : manager' = setBaseUrl(manager, url)
  /\ asked' = NothingAsked
  /\ UNCHANGED << pipelineVars, validatorVars, executorVars >>

\* what was asked about another text is forgotten
AskedAbout(text) == IF asked.text = text THEN asked ELSE [NothingAsked EXCEPT !.text = text]

CallValidateTestData ==
  /\ manager # None
  /\ \E text \in Range(Texts) :
       asked' = [AskedAbout(text) EXCEPT !.validation = << validateTestData(manager, text) >>]
  /\ UNCHANGED manager
  /\ UNCHANGED << pipelineVars, validatorVars, executorVars >>

CallReplacePlaceholders ==
  /\ manager # None
  /\ \E text \in Range(Texts), dataType \in {"valid", "invalid"} :
       asked' = [AskedAbout(text) EXCEPT
                   !.replaced = << [dataType |-> dataType,
                                    text |-> replacePlaceholders(manager, text, dataType)] >>]
  /\ UNCHANGED manager
  /\ UNCHANGED << pipelineVars, validatorVars, executorVars >>

ManagerNext ==
  \/ CallAddTestDataSet
  \/ CallSetBaseUrl
  \/ CallValidateTestData
  \/ CallReplacePlaceholders

ManagerSpec == ManagerInit /\ [][ManagerNext]_vars

(***************************************************************************)
(* Properties                                                              *)
(***************************************************************************)
\* the call has a TestCase from generateTestCase / a strict TestCase
HasTestCase == pc \in {"dsl", "resolved", "enhanced", "rendered", "caught", "validated", "returned"}

HasStrict == pc \in {"enhanced", "rendered", "caught", "validated", "returned"}

ValueChars == AlphaNum \cup CharsOf("._@-")

\* text contains `username x and password y`, y not running on
Mentions(text, x, y) ==
  LET phrase == "username " \o x \o " and password " \o y
  IN \E i \in 1..Len(text) :
       /\ Sub(text, i, i + Len(phrase)) = phrase
       /\ At(text, i + Len(phrase)) \notin ValueChars

\* a fill step with text x, later a fill step with text y, no fill step between
FillPair(steps, x, y) ==
  \E i, j \in 1..Len(steps) :
    /\ i < j
    /\ steps[i].action = "fill" /\ steps[i].text = x
    /\ steps[j].action = "fill" /\ steps[j].text = y
    /\ \A k \in (i + 1)..(j - 1) : steps[k].action # "fill"

\* C1: for every instruction containing `username X and password Y`, the TestCase
\* of generateTestCase and the strict TestCase inside generateFromPlainEnglish
\* have a fill step with text exactly X followed by a fill step with text exactly
\* Y, no fill step between them.
C1_ExactCredentialFills ==
  \A x, y \in Range(Credentials) :
    Mentions(request.plainEnglish, x, y) =>
      /\ HasTestCase => FillPair(resolved.steps, x, y)
      /\ HasStrict => FillPair(strict.steps, x, y)

\* C2: for "try to login with username Sam and password sammy" with base URL
\* https://example.com the resolved TestCase has exactly the five steps goto
\* /login, fill Username Sam, fill Password sammy, click button Login, assert
\* urlContains /dashboard.
C2_LoginExampleSteps ==
  (/\ HasStrict
   /\ request.plainEnglish = "try to login with username Sam and password sammy"
   /\ request.baseUrl = "https://example.com")
  => strict.steps =
       << [action |-> "goto", path |-> "/login"],
          [action |-> "fill", locator |-> [type |-> "label", value |-> "Username"],
           text |-> "Sam"],
          [action |-> "fill", locator |-> [type |-> "label", value |-> "Password"],
           text |-> "sammy"],
          [action |-> "click",
           locator |-> [type |-> "role", role |-> "button", name |-> "Login"]],
          [action |-> "assert", assertion |-> [type |-> "urlContains", value |-> "/dashboard"]] >>

\* C3: for "login with wrong password and expect error message"
\* generateFromPlainEnglish extracts no username and no password, every fill step
\* it renders has a "not specified" marker as its text, and errors is non-empty.
C3_MissingCredentialsReported ==
  (/\ pc = "returned"
   /\ request.plainEnglish = "login with wrong password and expect error message")
  => /\ "username" \notin DOMAIN response.extractedValues
     /\ "password" \notin DOMAIN response.extractedValues
     /\ \A i \in 1..Len(strict.steps) :
          strict.steps[i].action = "fill" => Includes(strict.steps[i].text, "not specified")
     /\ Len(response.errors) > 0

\* C7: in every result of generateFromPlainEnglish with errors non-empty,
\* playwrightCode begins with "ERROR: " and is not the rendered code; and the
\* result returned from the catch, whatever the renderer threw, has errors
\* non-empty and a playwrightCode that begins with "ERROR: ".
C7_ErrorsGiveErrorText ==
  /\ (pc = "returned" /\ Len(response.errors) > 0) =>
       /\ StartsWith(response.playwrightCode, "ERROR: ")
       /\ ~rendered.threw => response.playwrightCode # rendered.value.code
  /\ pc = "returned" =>
       \A message \in {"Unsupported framework: puppeteer", "Generation failed"} :
         /\ Len(strictResult(checklist, values, Thrown(message), <<>>).errors) > 0
         /\ StartsWith(strictResult(checklist, values, Thrown(message), <<>>).playwrightCode,
                       "ERROR: ")

\* a result returned after the self-validation found deviations
C7_Witness ==
  /\ pc = "returned"
  /\ ~rendered.threw
  /\ Len(selfErrors) > 0
  /\ response.errors = selfErrors

AssertCount(steps) == Cardinality({ i \in DOMAIN steps : steps[i].action = "assert" })

\* C10: the TestCase of generateTestCase has at most one assert step whatever
\* assertion cues the instruction has, so has the strict TestCase, and so have
\* the steps of the first parseAssertions of dsl-generator.ts.
C10_AtMostOneAssert ==
  /\ HasTestCase => AssertCount(resolved.steps) <= 1
  /\ HasStrict => AssertCount(strict.steps) <= 1
  /\ pc = "legacy" => AssertCount(legacy) <= 1

\* an instruction with an error cue, a dashboard cue and a success cue
C10_Witness ==
  /\ HasStrict
  /\ Includes(request.plainEnglish, "error")
  /\ Includes(request.plainEnglish, "dashboard")
  /\ Includes(request.plainEnglish, "success")
  /\ AssertCount(resolved.steps) = 1
  /\ AssertCount(strict.steps) = 1

\* validateStrictMode has run on audit.locks and audit.code (alone or inside
\* performFinalValidation)
StrictChecked == vpc \in {"validateStrictMode", "performFinalValidation"}

\* the locks the validator looks at: locked, with a value
LockedValues ==
  { i \in DOMAIN audit.locks : audit.locks[i].isLocked /\ audit.locks[i].value # "" }

Reported(messages, part) == \E k \in DOMAIN messages : Includes(messages[k], part)

\* C4: when the code contains the literal testuser (password123) while a locked
\* VALUE (a lock that is locked and has a value), or the extracted username
\* (password), is a different string, validateStrictMode and
\* performSelfValidation report the replacement and the result is not valid.
C4_PlaceholderRejected ==
  /\ StrictChecked =>
       \A i \in LockedValues : \A ph \in {"testuser", "password123"} :
         (/\ audit.locks[i].type = "VALUE"
          /\ Includes(audit.code, ph)
          /\ audit.locks[i].value # ph)
         => /\ ~verdict.isValid
            /\ Reported(verdict.deviations, "replaced with placeholder \"" \o ph \o "\"")
  /\ vpc = "performSelfValidation" =>
       \A f \in {<<"username", "testuser">>, <<"password", "password123">>} :
         (/\ Has(audit.values, f[1])
          /\ Includes(audit.code, f[2])
          /\ audit.values[f[1]] # f[2])
         => Reported(verdict.errors, "replaced with placeholder \"" \o f[2] \o "\"")

\* a locked VALUE Sam checked against code that fills in testuser1
C4_Witness ==
  /\ vpc = "validateStrictMode"
  /\ \E i \in LockedValues : audit.locks[i].type = "VALUE" /\ audit.locks[i].value = "Sam"
  /\ Includes(audit.code, "testuser")
  /\ ~verdict.isValid

\* the deny-list of the specification
DenyList ==
  { "waitForTimeout", "waitForSelector", "retry", "try {", "catch", ".reload()", ".goBack()",
    ".goForward()" }

Denied(code) == \E w \in DenyList : Includes(code, w)

\* C5: for values that all occur verbatim in the code, and code with nothing from
\* the deny-list in which testuser / password123 occur only as (part of) one of
\* these values, no `replaced with placeholder` deviation is reported, also when
\* one locked VALUE is password123 and another a different string, or when the
\* username is testuser1.
C5_NoFalsePlaceholderAlarm ==
  /\ (/\ StrictChecked
      /\ \A i \in LockedValues : Includes(audit.code, audit.locks[i].value)
      /\ \A ph \in {"testuser", "password123"} :
           Includes(audit.code, ph)
           => \E i \in LockedValues : Includes(audit.locks[i].value, ph)
      /\ ~Denied(audit.code))
     => ~Reported(verdict.deviations, "replaced with placeholder")
  /\ (/\ vpc = "performSelfValidation"
      /\ \A key \in DOMAIN audit.values : Includes(audit.code, audit.values[key])
      /\ \A ph \in {"testuser", "password123"} :
           Includes(audit.code, ph)
           => \E key \in DOMAIN audit.values : Includes(audit.values[key], ph)
      /\ ~Denied(audit.code))
     => ~Reported(verdict.errors, "replaced with placeholder")

C9_DenyListEnforced ==
  Denied(audit.code) =>
    /\ StrictChecked => ~verdict.isValid
    /\ vpc = "performSelfValidation" => Len(verdict.errors) > 0

\* the cues of the instruction, as the patterns of parseAssertions find them
Cue(k) == StrMatch(request.plainEnglish, assertionPatternsRx[k])

QuotedCue == Cue(7).ok \/ Cue(8).ok

QuotedText ==
  IF Cue(7).ok THEN Group(request.plainEnglish, Cue(7), 1)
  ELSE Group(request.plainEnglish, Cue(8), 1)

DashboardCue == Cue(3).ok \/ Cue(5).ok

ErrorCue == Cue(1).ok \/ Cue(2).ok

SuccessCue == Cue(6).ok

\* the type and value of the assert steps among steps
Asserted(steps) ==
  { [type |-> steps[i].assertion.type, value |-> steps[i].assertion.value] :
      i \in { j \in DOMAIN steps : steps[j].action = "assert" } }

\* the assertion the priority quoted > dashboard > error > success selects
ByPriority ==
  IF QuotedCue THEN [type |-> "containsText", value |-> QuotedText]
  ELSE IF DashboardCue THEN [type |-> "urlContains", value |-> "/dashboard"]
  ELSE IF ErrorCue THEN [type |-> "containsText", value |-> "error"]
  ELSE [type |-> "containsText", value |-> "success"]

\* C11: with several assertion cues in the instruction, the one assert step of
\* the TestCase (of generateTestCase, and of the strict TestCase) is the one the
\* priority quoted expectation > dashboard redirect > error > success selects.
C11_AssertionPriority ==
  Cardinality({ c \in {<<1, QuotedCue>>, <<2, DashboardCue>>, <<3, ErrorCue>>,
                       <<4, SuccessCue>>} : c[2] }) >= 2 =>
    /\ HasTestCase => Asserted(resolved.steps) = {ByPriority}
    /\ HasStrict => Asserted(strict.steps) = {ByPriority}

\* the explicit URL of the instruction, "" when it has none
ExplicitUrl ==
  LET m == StrMatch(request.plainEnglish, RegExp("(https?:\\/\\/[^\\s]+)",
             Cap(1, Cat(<<L("http"), Maybe(Cls({"s"})), L("://"),
             Plus(NotCls(WhiteSpace))>>)), TRUE))
  IN IF m.ok THEN Group(request.plainEnglish, m, 1) ELSE ""

\* the keyword table login -> /login, register -> /register, dashboard -> /dashboard
KeywordPath ==
  IF Includes(ToLowerCase(request.plainEnglish), "login") THEN "/login"
  ELSE IF Includes(ToLowerCase(request.plainEnglish), "register") THEN "/register"
  ELSE IF Includes(ToLowerCase(request.plainEnglish), "dashboard") THEN "/dashboard"
  ELSE "/"

GotoTarget == IF ExplicitUrl # "" THEN ExplicitUrl ELSE KeywordPath

StartsWithGoto(steps) ==
  /\ Len(steps) >= 1
  /\ steps[1].action = "goto"
  /\ steps[1].path = GotoTarget

\* C12: the first step of every resolved TestCase is a goto step to the explicit
\* URL of the instruction, else to the path the keyword table gives (login,
\* register, dashboard), else to "/".
C12_GotoFirst ==
  /\ HasTestCase => StartsWithGoto(resolved.steps)
  /\ HasStrict => StartsWithGoto(strict.steps)

\* the statement block a renderer of the generator called writes for the step
\* at index
StepBlock(generator, options, step, index) ==
  IF options.framework = "playwright"
    THEN IF generator = "generateCodeStrict"
           THEN generatePlaywrightStepStrict(step, 2, options.includeComments,
                                             options.includeScreenshots, index)
         ELSE generatePlaywrightStep(step, 2, options.includeComments,
                                     options.includeScreenshots, index)
  ELSE IF options.framework = "cypress"
    THEN generateCypressStep(step, 4, options.includeScreenshots)
  ELSE IF options.language = "python" THEN generateSeleniumPythonStep(step, 8)
  ELSE generateSeleniumJavaStep(step, 8)

\* a renderer was called and returned
Rendered == vpc \in {"generateCode", "generateCodeStrict"} /\ ~verdict.threw

\* the last line of a template before the steps
Opening(options) ==
  IF options.framework = "playwright"
    THEN "  test.setTimeout(" \o ToString(options.timeout) \o ");\n  \n"
  ELSE IF options.framework = "cypress" THEN "', () => {\n"
  ELSE IF options.language = "python" THEN "        driver = self.driver\n        \n"
  ELSE "() {\n"

\* what follows the steps in a template
Closing(options) ==
  IF options.framework = "playwright" THEN "\n});"
  ELSE IF options.framework = "cypress" THEN "\n  });\n});"
  ELSE IF options.language = "python"
    THEN "\n\nif __name__ == \"__main__\":\n    unittest.main()"
  ELSE "\n    }\n}"

\* code is: a head ending with the opening and holding no block, then the
\* blocks in their order with a newline between two, then the closing
BlocksInOrder(code, blocks, opening, closing) ==
  LET tail == Join(blocks, "\n") \o closing
      n == Len(code) - Len(tail)
  IN /\ n >= Len(opening)
     /\ Sub(code, n + 1, Len(code) + 1) = tail
     /\ Sub(code, n - Len(opening) + 1, n + 1) = opening
     /\ \A i \in 1..Len(blocks) : ~Includes(Sub(code, 1, n + 1), blocks[i])

\* C13: for every TestCase and every renderer (Playwright, Selenium Python and
\* Java, Cypress) the rendered body has exactly one statement block per step,
\* in step order: none dropped, none duplicated, none out of place.
C13_OneBlockPerStepInOrder ==
  Rendered =>
    BlocksInOrder(verdict.value.code,
                  [i \in 1..Len(audit.testCase.steps) |->
                     StepBlock(vpc, audit.options, audit.testCase.steps[i], i)],
                  Opening(audit.options), Closing(audit.options))

\* a Selenium rendering of two different steps
C13_Witness ==
  /\ Rendered
  /\ audit.options.framework = "selenium"
  /\ Len(audit.testCase.steps) = 2
  /\ audit.testCase.steps[1] # audit.testCase.steps[2]

\* the selector the mapping gives a locator that has all its fields
Selector(locator) ==
  CASE locator.type = "role" -> "role=" \o locator.role \o "[name=\"" \o locator.name \o "\"]"
    [] locator.type = "label" -> "label:has-text(\"" \o locator.value \o "\")"
    [] locator.type = "id" -> "#" \o locator.value
    [] locator.type = "text" -> "text=" \o locator.value
    [] locator.type = "css" -> locator.value

\* a fill or click step whose locator is one of the five kinds, all fields there
HasFullLocator(step) ==
  /\ step.action \in {"fill", "click"}
  /\ "locator" \in DOMAIN step
  /\ step.action = "fill" => Has(step, "text")
  /\ IF step.locator.type = "role"
       THEN Has(step.locator, "role") /\ Has(step.locator, "name")
     ELSE step.locator.type \in {"label", "id", "text", "css"} /\ Has(step.locator, "value")

LoginButton == [type |-> "role", role |-> "button", name |-> "Login"]

\* C14: under the Playwright target a role locator renders as
\* role=ROLE[name="NAME"] (role=button[name="Login"] for the Login button),
\* label V as label:has-text("V"), id V as #V, text V as text=V and css V as V.
C14_LocatorMapping ==
  (Rendered /\ audit.options.framework = "playwright") =>
    \A i \in 1..Len(audit.testCase.steps) :
      HasFullLocator(audit.testCase.steps[i]) =>
        /\ Includes(verdict.value.code,
                    "  await page.locator('" \o Selector(audit.testCase.steps[i].locator)
                      \o "')." \o audit.testCase.steps[i].action)
        /\ audit.testCase.steps[i].locator = LoginButton =>
             Includes(verdict.value.code,
                      "  await page.locator('role=button[name=\"Login\"]').click();")

\* a Playwright rendering of a click on the Login button after a fill by label
C14_Witness ==
  /\ Rendered
  /\ audit.options.framework = "playwright"
  /\ Len(audit.testCase.steps) = 2
  /\ audit.testCase.steps[1] = FillStep("username", "Sam")
  /\ audit.testCase.steps[2] = [action |-> "click", locator |-> LoginButton]

\* a fill or click step with no locator, or with a locator short of a field
LacksLocator(step) ==
  /\ step.action \in {"fill", "click"}
  /\ \/ "locator" \notin DOMAIN step
     \/ IF step.locator.type = "role"
          THEN ~Has(step.locator, "role") \/ ~Has(step.locator, "name")
        ELSE ~Has(step.locator, "value")

\* text that says in words that something was not given
Marked(text) ==
  \E word \in {"TODO", "not specified", "unspecified", "unresolved"} : Includes(text, word)

SupportedFramework == audit.options.framework \in {"playwright", "selenium", "cypress"}

\* C15: a fill or click step with no locator, or with a locator short of a
\* required field, is rendered by every framework renderer as a block with an
\* explicit marker where the selector would be: no throw, no `undefined`, no
\* step dropped.
C15_MissingLocatorMarked ==
  (vpc \in {"generateCode", "generateCodeStrict"} /\ SupportedFramework) =>
    /\ (\E i \in 1..Len(audit.testCase.steps) : LacksLocator(audit.testCase.steps[i]))
         => ~verdict.threw
    /\ ~verdict.threw =>
         \A i \in 1..Len(audit.testCase.steps) :
           LacksLocator(audit.testCase.steps[i]) =>
             /\ Includes(verdict.value.code,
                         StepBlock(vpc, audit.options, audit.testCase.steps[i], i))
             /\ Marked(StepBlock(vpc, audit.options, audit.testCase.steps[i], i))
             /\ ~Includes(StepBlock(vpc, audit.options, audit.testCase.steps[i], i),
                          "undefined")

\* the assertion types a renderer has a statement for
KnownAssertions(generator, options) ==
  IF options.framework = "playwright"
    THEN {"containsText", "visible", "urlContains", "hasValue", "isEnabled", "isDisabled"}
         \cup (IF generator = "generateCodeStrict" THEN {"exactText", "toHaveText"} ELSE {})
  ELSE IF options.framework = "cypress" THEN {"containsText", "urlContains", "visible"}
  ELSE {"containsText", "urlContains"}

\* a step of no known action, or an assert step with no assertion or with one
\* the renderer has no statement for
Unrenderable(generator, options, step) ==
  \/ step.action \notin {"goto", "fill", "click", "assert"}
  \/ /\ step.action = "assert"
     /\ \/ "assertion" \notin DOMAIN step
        \/ step.assertion.type \notin KnownAssertions(generator, options)

\* a comment line saying the step is unknown, unsupported or not specified
UnknownComment(block) ==
  /\ \/ Includes(block, "// ")
     \/ Includes(block, "# ")
  /\ \E word \in {"Unknown", "unknown", "Unsupported", "unsupported", "not specified"} :
       Includes(block, word)

\* C16: a step whose action is none of goto, fill, click, assert, and an assert
\* step whose assertion is absent or of a type the target framework does not
\* support, is rendered by every framework renderer as a visible
\* unknown/unsupported comment; the renderer never throws on it.
C16_UnknownStepCommented ==
  (vpc \in {"generateCode", "generateCodeStrict"} /\ SupportedFramework) =>
    /\ ( /\ \E i \in 1..Len(audit.testCase.steps) :
              Unrenderable(vpc, audit.options, audit.testCase.steps[i])
         /\ \A i \in 1..Len(audit.testCase.steps) : ~LacksLocator(audit.testCase.steps[i]) )
         => ~verdict.threw
    /\ ~verdict.threw =>
         \A i \in 1..Len(audit.testCase.steps) :
           Unrenderable(vpc, audit.options, audit.testCase.steps[i]) =>
             /\ Includes(verdict.value.code,
                         StepBlock(vpc, audit.options, audit.testCase.steps[i], i))
             /\ UnknownComment(StepBlock(vpc, audit.options, audit.testCase.steps[i], i))

\* the instruction speaks of logging in or of credentials
ImpliesLogin ==
  \E word \in {"login", "log in", "sign in", "username", "password"} :
    Includes(ToLowerCase(request.plainEnglish), word)

\* the fill steps among steps, as <<label, text>>, in their order
RECURSIVE Fills(_, _)
Fills(steps, n) ==
  IF n = 0 THEN <<>>
  ELSE Fills(steps, n - 1)
       \o (IF steps[n].action = "fill"
             THEN << <<Interp(steps[n].locator, "value"), steps[n].text>> >>
           ELSE <<>>)

\* C17: in strict mode, an instruction that implies a login but gives no
\* username or no password value still resolves to a Username fill followed by
\* a Password fill; the text of a fill whose value is missing is a "not
\* specified" marker, and no fill text is a value the instruction does not hold.
C17_MissingCredentialFills ==
  (HasStrict /\ ImpliesLogin /\ (~Has(values, "username") \/ ~Has(values, "password"))) =>
    LET fills == Fills(strict.steps, Len(strict.steps))
    IN /\ \E i, j \in 1..Len(fills) :
            i < j /\ fills[i][1] = "Username" /\ fills[j][1] = "Password"
       /\ \A i \in 1..Len(fills) :
            /\ (fills[i][1] = "Username" /\ ~Has(values, "username"))
                 => Includes(fills[i][2], "not specified")
            /\ (fills[i][1] = "Password" /\ ~Has(values, "password"))
                 => Includes(fills[i][2], "not specified")
            /\ Includes(fills[i][2], "not specified")
                 \/ Includes(request.plainEnglish, fills[i][2])

\* extractAllValues has returned
Extracted ==
  pc \in {"extracted", "listed", "resolved", "enhanced", "rendered", "caught", "validated",
          "returned"}

\* the alternatives of a list whose regex matches the instruction
Matching(patterns) ==
  { k \in 1..Len(patterns) : StrMatch(request.plainEnglish, patterns[k]).ok }

\* what the first matching alternative captured
FirstCapture(patterns) ==
  LET k == CHOOSE k \in Matching(patterns) : \A j \in Matching(patterns) : k <= j
  IN Trim(Group(request.plainEnglish, StrMatch(request.plainEnglish, patterns[k]), 1))

\* the value of a field is what the first matching alternative of its list
\* captured, and there is none when no alternative matches
FirstMatchDecides(key, patterns) ==
  IF Matching(patterns) = {} THEN ~Has(values, key)
  ELSE Has(values, key) => values[key] = FirstCapture(patterns)

\* C18: for each field of the value extractor the first alternative, in list
\* order, whose regex matches the instruction decides the field: once it has
\* matched, no later alternative (such as the word after "and" for the
\* password) gives the field its value.
C18_FirstAlternativeWins ==
  Extracted =>
    /\ FirstMatchDecides("username", usernamePatterns)
    /\ FirstMatchDecides("password", passwordPatterns)

\* C19: after extractAllValues, when the result has both a username and a
\* password, the password is not the username nor a part of it.
C19_PasswordNotInUsername ==
  (Extracted /\ Has(values, "username") /\ Has(values, "password")) =>
    ~Includes(values.username, values.password)

\* both found, after a first password candidate that lay inside the username
C19_Witness ==
  /\ Extracted
  /\ Has(values, "username")
  /\ Has(values, "password")
  /\ Matching(passwordPatterns) # {}
  /\ Includes(values.username, FirstCapture(passwordPatterns))

\* the code generateStrictCode renders from its arguments
StrictRendering ==
  generateCodeStrict(
    convertLocksToTestCase(extractLockedValues(audit.originalInput), audit.testSteps),
    PlaywrightOptions, "")

\* the deviations the strict-mode check finds before anything is rendered,
\* which is where every locked value is first looked for
StrictDeviations == validateStrictMode(extractLockedValues(audit.originalInput), "").deviations

Indexed(results) == \A n \in 1..Len(results) : results[n].stepIndex = n - 1

PassedUpTo(results, last) == \A n \in 1..last : results[n].status = "passed"

RealReturned == epc = "returned" /\ job.executor = "RealUrlExecutor"

\* C21: RealUrlExecutor.execute runs the steps in index order and stops at the
\* first failing step k: it returns failed with k+1 stepResults, stepResults[i]
\* of stepIndex i, the first k passed and the last failed, and no step after k
\* executed; with no failing step it returns passed with one passed stepResult
\* per step; it never returns running
C21_StopsAtFirstFailure ==
  RealReturned =>
    /\ outcome.status \in {"passed", "failed"}
    /\ Indexed(outcome.stepResults)
    /\ attempts = [n \in 1..Len(outcome.stepResults) |-> n - 1]
    /\ Len(outcome.stepResults) <= Len(job.testCase.steps)
    /\ IF outcome.status = "failed"
         THEN /\ Len(outcome.stepResults) >= 1
              /\ PassedUpTo(outcome.stepResults, Len(outcome.stepResults) - 1)
              /\ outcome.stepResults[Len(outcome.stepResults)].status = "failed"
         ELSE /\ Len(outcome.stepResults) = Len(job.testCase.steps)
              /\ PassedUpTo(outcome.stepResults, Len(outcome.stepResults))

\* a call that failed at its first step and left the second one alone
C21_Witness ==
  /\ RealReturned
  /\ outcome.status = "failed"
  /\ Len(outcome.stepResults) = 1
  /\ Len(job.testCase.steps) = 2

Once(list) == \A a, b \in 1..Len(list) : a # b => list[a] # list[b]

\* how far generateFromPlainEnglish (or generateTestCase alone) has got
Stage(at) ==
  CASE at = "start" -> 0
    [] at = "extracted" -> 1
    [] at = "listed" -> 2
    [] at \in {"resolved", "dsl", "legacy"} -> 3
    [] at = "enhanced" -> 4
    [] at \in {"rendered", "caught"} -> 5
    [] at = "validated" -> 6
    [] at = "returned" -> 7
    [] OTHER -> 0

\* C22: during one execute call of either executor every step is attempted at
\* most once and nothing is attempted after the call has returned, whatever
\* retryCount is; and the generator goes through extraction, resolution,
\* rendering and validation once each, never back to a stage it has left
C22_NoRetries ==
  [][ /\ Once(attempts')
      /\ epc = "returned" => attempts' = attempts
      /\ epc' # epc => epc # "returned"
      /\ pc' # pc => Stage(pc') > Stage(pc) ]_vars

\* a step has failed under retryCount 3 and was tried once
C22_Witness ==
  /\ epc = "returned"
  /\ job.options.retryCount = 3
  /\ outcome.status = "failed"
  /\ "stepResults" \in DOMAIN outcome
  /\ attempts = << 0 >>

\* the last executeGoto has returned
GotoSettled == net # None /\ Len(stepResults) > net.stepIndex

GotoResult == stepResults[net.stepIndex + 1]

TimeoutError == "Timeout after " \o ToString(timeoutOf(job.options)) \o "ms"

\* C24: in executeGoto, a timer that fires before the fetch settles makes the
\* step fail with `Timeout after <n>ms`, which is not the element-not-found
\* failure, and window.open is not tried; a fetch that settles first clears the
\* timer, so that no abort happens afterwards and no timeout is reported
C24_TimerFetchRace ==
  /\ (GotoSettled /\ net.fetch = "aborted") =>
       /\ GotoResult.status = "failed"
       /\ GotoResult.error = TimeoutError
       /\ ~StartsWith(GotoResult.error, "Element not found")
       /\ ~net.windowOpened
  /\ (net # None /\ net.fetch \in {"resolved", "rejected"}) =>
       /\ net.timer = "cleared"
       /\ ~net.aborted
       /\ GotoSettled
       /\ GotoResult.error # TimeoutError

\* the timer of the second goto fired first, and execute has returned
C24_Witness ==
  /\ epc = "returned"
  /\ net # None
  /\ net.stepIndex = 1
  /\ net.fetch = "aborted"
  /\ net.aborted
  /\ outcome.error = "Timeout after 30000ms"

\* where the claim has a goto step navigate: its absolute path, or its path
\* after the baseUrl of the TestCase (trimmed, as execute reads it)
ClaimedTarget(step) ==
  IF StartsWith(step.path, "http")
    THEN step.path
    ELSE Trim(job.testCase.meta.baseUrl) \o step.path

\* C29: every goto step of RealUrlExecutor.execute with a relative path p
\* navigates to testCase.meta.baseUrl followed by p, however many goto steps
\* ran before it, and one with an absolute http(s) path to that path unchanged
C29_GotoFromBaseUrl ==
  \A n \in 1..Len(visited) :
    visited[n].targetUrl = ClaimedTarget(job.testCase.steps[visited[n].stepIndex + 1])

(***************************************************************************)
(* Properties of generateStrictCode, continued                             *)
(***************************************************************************)
InputLocks == extractLockedValues(audit.originalInput)

\* no locked value is empty or holds '<' or 'TODO'
LocksComplete == validateInputCompleteness(InputLocks).isValid

\* the check generateStrictCode makes before it renders anything
EarlyValidation == performFinalValidation(audit.originalInput, "", InputLocks)

\* the result of the early return
EarlyError ==
  [resolvedSteps |-> audit.testSteps,
   playwrightCode |-> "ERROR: DEVIATION DETECTED\n" \o Join(EarlyValidation.errors, "\n"),
   validationResult |-> EarlyValidation]

\* C23: generateStrictCode returns its early ERROR result only when some locked
\* value is missing or incomplete; when every [LOCK ...] value of the input is
\* complete it goes on to render, and returns the rendered code if that code
\* passes the final validation
C23_EarlyErrorOnlyWhenIncomplete ==
  (vpc = "generateStrictCode" /\ LocksComplete) =>
    /\ EarlyValidation.isValid
    /\ verdict # EarlyError
    /\ (/\ ~StrictRendering.threw
        /\ performFinalValidation(audit.originalInput, StrictRendering.value.code,
                                  InputLocks).isValid)
         => verdict.playwrightCode = StrictRendering.value.code

(***************************************************************************)
(* Properties of generateFromPlainEnglish, continued                       *)
(***************************************************************************)
\* the code holds a fill statement whose text argument is text
FillsWith(code, text) == Includes(code, ".fill('" \o text \o "');")

ReturnedClean == pc = "returned" /\ response.errors = <<>>

\* C25: whenever generateFromPlainEnglish returns with errors empty and a
\* username (resp. password) was extracted, the rendered code holds a fill
\* statement whose text argument is exactly that value; the value in a comment
\* line or in the test title alone does not pass the completeness check
C25_ExtractedValueIsFilled ==
  ReturnedClean =>
    /\ Has(values, "username") => FillsWith(response.playwrightCode, values.username)
    /\ Has(values, "password") => FillsWith(response.playwrightCode, values.password)

\* the action an entry of resolvedSteps describes
EntryKind(entry) ==
  CASE StartsWith(entry, "Navigate") -> "navigate"
    [] StartsWith(entry, "Fill username") -> "fill-username"
    [] StartsWith(entry, "Fill password") -> "fill-password"
    [] StartsWith(entry, "Click") -> "click"
    [] StartsWith(entry, "Assert") -> "assert"
    [] OTHER -> "other"

\* the action a step of the TestCase performs
StepKind(step) ==
  CASE step.action = "goto" -> "navigate"
    [] step.action = "fill" /\ "locator" \in DOMAIN step /\ step.locator.value = "Username" ->
         "fill-username"
    [] step.action = "fill" /\ "locator" \in DOMAIN step /\ step.locator.value = "Password" ->
         "fill-password"
    [] step.action = "click" -> "click"
    [] step.action = "assert" -> "assert"
    [] OTHER -> "other"

\* the kinds of a list in the order in which they first occur
RECURSIVE FirstOccurrences(_, _)
FirstOccurrences(kinds, n) ==
  IF n = 0 THEN <<>>
  ELSE IF \E m \in 1..(n - 1) : kinds[m] = kinds[n]
    THEN FirstOccurrences(kinds, n - 1)
  ELSE Append(FirstOccurrences(kinds, n - 1), kinds[n])

ChecklistKinds ==
  FirstOccurrences([n \in 1..Len(checklist) |-> EntryKind(checklist[n])], Len(checklist))

StrictKinds ==
  FirstOccurrences([n \in 1..Len(strict.steps) |-> StepKind(strict.steps[n])],
                   Len(strict.steps))

\* C26: the resolvedSteps checklist returned by generateFromPlainEnglish and the
\* steps of the TestCase it renders describe the same actions: a navigate /
\* fill-username / fill-password / click / assert entry exactly when there is a
\* goto / Username fill / Password fill / click / assert step, in the same
\* relative order
C26_ChecklistMatchesSteps ==
  pc = "returned" => ChecklistKinds = StrictKinds

\* step fills the field labelled label with a value that is no TODO marker
ConcreteFill(step, label) ==
  /\ step.action = "fill"
  /\ "locator" \in DOMAIN step
  /\ Has(step.locator, "value")
  /\ step.locator.value = label
  /\ Has(step, "text")
  /\ ~Includes(step.text, "TODO")

SameUpToCase(a, b) == ToLowerCase(a) = ToLowerCase(b)

\* the two extractors agree on the field, and the strict step keeps the value
Agree(n, label, key) ==
  ConcreteFill(resolved.steps[n], label) =>
    /\ Has(values, key)
    /\ SameUpToCase(values[key], resolved.steps[n].text)
    /\ SameUpToCase(strict.steps[n].text, resolved.steps[n].text)

\* C27: whenever generateTestCase emits a Username (resp. Password) fill step
\* with a concrete, non-TODO value v, extractAllValues on the same instruction
\* yields a username (resp. password) equal to v up to letter case, so that
\* enhanceWithStrictMode never replaces a concrete fill value by a 'not
\* specified' marker or by a different string
C27_ExtractorsAgree ==
  HasStrict =>
    \A n \in 1..Len(resolved.steps) :
      Agree(n, "Username", "username") /\ Agree(n, "Password", "password")

\* the instruction `login with username X and password Y`
LoginWith(x, y) == "login with username " \o x \o " and password " \o y

\* C28: extractAllValues discards a password candidate only when it is the very
\* occurrence already captured as the username: for every instruction `login
\* with username X and password Y` the extracted password is Y, for all X and
\* Y, also when Y equals X or is a substring of X
C28_PasswordOfLoginWith ==
  \A x, y \in Used(Credentials, NumValues) :
    (pc = "extracted" /\ request.plainEnglish = LoginWith(x, y)) =>
      Has(values, "password") /\ values.password = y

(***************************************************************************)
(* Properties of the TestDataManager                                       *)
(***************************************************************************)
\* both calls were made on one text, in the state the manager is in
BothAsked ==
  /\ manager # None
  /\ Len(asked.validation) = 1
  /\ Len(asked.replaced) = 1
  /\ asked.replaced[1].dataType = "valid"

LeftOver == placeholdersFrom(asked.replaced[1].text, 1)

\* C30: in any state of a TestDataManager reached by addTestDataSet and
\* setBaseUrl, if validateTestData(text) returns isValid = true then
\* replacePlaceholders(text, 'valid') returns a string without any {{...}}
\* placeholder; and every placeholder replacePlaceholders leaves is listed in
\* missingFields
C30_ValidMeansReplaced ==
  BothAsked =>
    /\ asked.validation[1].isValid => LeftOver = <<>>
    /\ \A n \in 1..Len(LeftOver) : LeftOver[n] \in Range(asked.validation[1].missingFields)

====
